---- MODULE Spec2Model ----
(***************************************************************************)
(* Turn-taking state machine of the orchestration loop.                    *)
(*                                                                         *)
(* Two programs share the persisted state file:                            *)
(*   - the combined orchestrator (orchestrator._run_combined driving       *)
(*     orchestrator.run_combined_iteration: galph turn, then ralph turn),  *)
(*   - the engineer loop (loop.main), in sync-via-git and in local mode.   *)
(* Both stamp an OrchestrationState (state.py) and select prompts through  *)
(* runner.select_prompt / workflows.resolve_step.                          *)
(***************************************************************************)
EXTENDS Integers, Sequences, FiniteSets, TLC

\* ------------------------------------------------------------------ bounds
MaxLoops == 2
MaxStep0 == 1
MaxIndex == 7
MaxCadence == 3
MaxChunks == 2
MaxTime == 3

\* ------------------------------------------------------- program constants
LeaseMinutes == 10
DefaultIteration == 1
DefaultStepIndex == 0
CycleLen == 2
FailRc == 2
GitFailRc == 1
TimeoutRc == 124
TermStatus == -15
KillStatus == -9
GraceTicks == 1

None == "None"

\* ------------------------------------------------------------- vocabulary
Statuses == {"idle", "running", "waiting-next", "complete", "failed"}
TerminalStatuses == {"waiting-next", "complete", "failed"}
RouterModes == {"router_default", "router_first", "router_only"}
PromptFiles == {"supervisor.md", "main.md", "reviewer.md", "router.md"}
ExitCodes == {0, 1, 124}
Heads == {"c0ffee1", "deadbee"}

VARIABLES
  prog,           \* which entry point runs: "combined" | "loop", or a function
                  \* called alone: "resolve" | "turn"
  args,           \* parsed command line (fixed for one run)
  files,          \* prompt files present under prompts_dir
  disk,           \* the state file: [kind, doc]
  state,          \* the OrchestrationState object held in memory
  pc,             \* position of the running program
  loop_i,         \* iterations of the outer for-loop already started
  router_output,  \* output of the router prompt for this iteration
  turn,           \* the turn in progress: [role, selected_prompt]
  rc,             \* code returned by run_combined_iteration / the program
  now,            \* wall clock, in minutes
  head,           \* git short HEAD
  hist            \* history of the run (observations only)

vars == <<prog, args, files, disk, state, pc, loop_i, router_output,
          turn, rc, now, head, hist>>

\* ---------------------------------------------------------------- state.py

\* OrchestrationState() with the dataclass defaults, constructed at time t.
OrchestrationState(t) ==
  [workflow_name |-> "standard",
   step_index |-> DefaultStepIndex,
   iteration |-> DefaultIteration,
   expected_step |-> None,
   status |-> "idle",
   last_update |-> t,
   lease_expires_at |-> t + LeaseMinutes,
   galph_commit |-> None,
   ralph_commit |-> None,
   last_prompt |-> None]

StateFields == DOMAIN OrchestrationState(0)

Max(a, b) == IF a >= b THEN a ELSE b

\* dict.get(key, default)
Get(doc, key, default) == IF key \in DOMAIN doc THEN doc[key] ELSE default

\* read() that takes iteration from step_index instead of the document.
Read_iteration_from_step(d, t) ==
  IF d.kind # "json"
  THEN OrchestrationState(t)
  ELSE LET data == d.doc
           step_index == Get(data, "step_index", Max(0, Get(data, "iteration", 1) - 1))
       IN [workflow_name |-> Get(data, "workflow_name", "standard"),
           step_index |-> step_index,
           iteration |-> step_index + 1,
           expected_step |-> Get(data, "expected_step", None),
           status |-> Get(data, "status", "idle"),
           last_update |-> Get(data, "last_update", t),
           lease_expires_at |-> Get(data, "lease_expires_at", t + LeaseMinutes),
           galph_commit |-> Get(data, "galph_commit", None),
           ralph_commit |-> Get(data, "ralph_commit", None),
           last_prompt |-> Get(data, "last_prompt", None)]

\* OrchestrationState.read(path) at time t.
Read(d, t) ==
  IF d.kind # "json"
  THEN OrchestrationState(t)
  ELSE LET data == d.doc
           raw_iteration == Get(data, "iteration", 1)
           step_index == Get(data, "step_index", Max(0, raw_iteration - 1))
           iteration == Get(data, "iteration", step_index + 1)
       IN [workflow_name |-> Get(data, "workflow_name", "standard"),
           step_index |-> step_index,
           iteration |-> iteration,
           expected_step |-> Get(data, "expected_step", None),
           status |-> Get(data, "status", "idle"),
           last_update |-> Get(data, "last_update", t),
           lease_expires_at |-> Get(data, "lease_expires_at", t + LeaseMinutes),
           galph_commit |-> Get(data, "galph_commit", None),
           ralph_commit |-> Get(data, "ralph_commit", None),
           last_prompt |-> Get(data, "last_prompt", None)]

\* OrchestrationState.write(path): json.dump(self.__dict__) to a temp file,
\* then os.replace onto the path.  The document holds the state's own fields
\* and nothing else.
Write(st) == [kind |-> "json", doc |-> st]

\* A commit argument is applied only when truthy (not None, not "").
Truthy(s) == s # None /\ s # ""

\* stamp() advancing step_index whatever increment_step says.
stamp_increments_always(st, expected_step, status, increment_step, galph_commit, ralph_commit, t) ==
  LET s1 == IF expected_step # None THEN [st EXCEPT !.expected_step = expected_step] ELSE st
      s2 == IF status # None THEN [s1 EXCEPT !.status = status] ELSE s1
      s3 == [s2 EXCEPT !.step_index = s2.step_index + 1,
                       !.iteration = s2.step_index + 1 + 1]
      s4 == IF Truthy(galph_commit) THEN [s3 EXCEPT !.galph_commit = galph_commit] ELSE s3
      s5 == IF Truthy(ralph_commit) THEN [s4 EXCEPT !.ralph_commit = ralph_commit] ELSE s4
  IN [s5 EXCEPT !.last_update = t, !.lease_expires_at = t + LeaseMinutes]

\* stamp() counting iteration up instead of recomputing it from step_index.
stamp_bumps_iteration(st, expected_step, status, increment_step, galph_commit, ralph_commit, t) ==
  LET s1 == IF expected_step # None THEN [st EXCEPT !.expected_step = expected_step] ELSE st
      s2 == IF status # None THEN [s1 EXCEPT !.status = status] ELSE s1
      s3 == IF increment_step
            THEN [s2 EXCEPT !.step_index = s2.step_index + 1,
                            !.iteration = s2.iteration + 1]
            ELSE s2
      s4 == IF Truthy(galph_commit) THEN [s3 EXCEPT !.galph_commit = galph_commit] ELSE s3
      s5 == IF Truthy(ralph_commit) THEN [s4 EXCEPT !.ralph_commit = ralph_commit] ELSE s4
  IN [s5 EXCEPT !.last_update = t, !.lease_expires_at = t + LeaseMinutes]

\* OrchestrationState.stamp(expected_step, status, increment_step,
\*                          galph_commit, ralph_commit) at time t.
stamp(st, expected_step, status, increment_step, galph_commit, ralph_commit, t) ==
  LET s1 == IF expected_step # None THEN [st EXCEPT !.expected_step = expected_step] ELSE st
      s2 == IF status # None THEN [s1 EXCEPT !.status = status] ELSE s1
      s3 == IF increment_step
            THEN [s2 EXCEPT !.step_index = s2.step_index + 1,
                            !.iteration = s2.step_index + 1 + 1]
            ELSE s2
      s4 == IF Truthy(galph_commit) THEN [s3 EXCEPT !.galph_commit = galph_commit] ELSE s3
      s5 == IF Truthy(ralph_commit) THEN [s4 EXCEPT !.ralph_commit = ralph_commit] ELSE s4
  IN [s5 EXCEPT !.last_update = t, !.lease_expires_at = t + LeaseMinutes]

\* ------------------------------------------------------------ workflows.py

WorkflowNames == {"standard", "review_cadence"}

\* get_workflow(name, review_every_n_cycles); ok = FALSE stands for the
\* ValueError raised for an unknown name.
get_workflow(name, review_every_n_cycles) ==
  IF name = "standard"
  THEN [ok |-> TRUE, name |-> "standard",
        steps |-> <<"supervisor.md", "main.md">>, cycle_len |-> CycleLen,
        review_every_n_cycles |-> 0, review_prompt |-> None]
  ELSE IF name = "review_cadence"
  THEN [ok |-> TRUE, name |-> "review_cadence",
        steps |-> <<"supervisor.md", "main.md">>, cycle_len |-> CycleLen,
        review_every_n_cycles |-> review_every_n_cycles,
        review_prompt |-> "reviewer.md"]
  ELSE [ok |-> FALSE, name |-> name, steps |-> <<>>, cycle_len |-> CycleLen,
        review_every_n_cycles |-> 0, review_prompt |-> None]

\* resolve_step() indexing the steps by the cycle instead of the position in it.
resolve_step_by_cycle(workflow, step_index) ==
  LET base_index == step_index % workflow.cycle_len
      cycle_index == step_index \div workflow.cycle_len
  IN IF /\ workflow.review_every_n_cycles > 0
        /\ (cycle_index + 1) % workflow.review_every_n_cycles = 0
        /\ workflow.review_prompt # None
     THEN workflow.review_prompt
     ELSE workflow.steps[(cycle_index % workflow.cycle_len) + 1]

\* resolve_step() counting review cycles from 0: cycle_index % N instead of
\* (cycle_index + 1) % N.
resolve_step_cadence_from_zero(workflow, step_index) ==
  LET base_index == step_index % workflow.cycle_len
      cycle_index == step_index \div workflow.cycle_len
  IN IF /\ workflow.review_every_n_cycles > 0
        /\ cycle_index % workflow.review_every_n_cycles = 0
        /\ workflow.review_prompt # None
     THEN workflow.review_prompt
     ELSE workflow.steps[base_index + 1]

\* resolve_step(workflow, step_index).prompt
resolve_step(workflow, step_index) ==
  LET base_index == step_index % workflow.cycle_len
      cycle_index == step_index \div workflow.cycle_len
  IN IF /\ workflow.review_every_n_cycles > 0
        /\ (cycle_index + 1) % workflow.review_every_n_cycles = 0
        /\ workflow.review_prompt # None
     THEN workflow.review_prompt
     ELSE workflow.steps[base_index + 1]

\* --------------------------------------------------------------- router.py

\* Prompt tokens a router or an allowlist can name.  A token is a relative
\* path; PathSuffix and WithSuffixMd give pathlib's suffix / with_suffix on
\* each of them.
Tokens == {"supervisor.md", "main.md", "reviewer.md", "router.md",
           "reviewer", "main.txt", "evil.md"}

PathSuffix(token) ==
  CASE token = "reviewer" -> ""
    [] token = "main.txt" -> ".txt"
    [] OTHER -> ".md"

WithSuffixMd(token) ==
  CASE token = "reviewer" -> "reviewer.md"
    [] token = "main.txt" -> "main.md"
    [] OTHER -> token

normalize_router_mode(value) ==
  IF value = None \/ value = "" THEN "router_default"
  ELSE IF value \in {"default", "router", "router_default"} THEN "router_default"
  ELSE IF value \in {"router-first", "router_first", "first"} THEN "router_first"
  ELSE IF value \in {"router-only", "router_only", "only"} THEN "router_only"
  ELSE "ValueError"

\* _normalize_prompt_token
normalize_prompt_token(token) ==
  IF PathSuffix(token) # ".md" THEN WithSuffixMd(token) ELSE token

\* _normalize_allowlist that lets every token through: the allowlist is
\* not consulted.
normalize_allowlist_open(allowlist) == {normalize_prompt_token(item) : item \in Tokens}

\* _normalize_allowlist
normalize_allowlist(allowlist) == {normalize_prompt_token(item) : item \in allowlist}

\* resolve_prompt_path(token, prompts_dir): the tokens above are plain
\* relative names, so the path is prompts_dir / normalized token; a path is
\* identified by its name under prompts_dir.
resolve_prompt_path(token) == normalize_prompt_token(token)

\* Router output: absent (None), or text given as its lines ("" is a blank
\* line).  not router_output <=> None or the empty string.
NoOutput == [present |-> FALSE, lines |-> <<>>]
Output(ls) == [present |-> TRUE, lines |-> ls]
Falsy(router_out) == ~router_out.present \/ router_out.lines = <<>>

\* parse_router_output: the non-blank lines; exactly one is required.
NonBlank(ls) == SelectSeq(ls, LAMBDA l : l # "")
\* parse_router_output taking the first of several non-blank lines.
parse_router_output_first_line(raw_output) ==
  LET lines == NonBlank(raw_output.lines)
  IN IF Len(lines) = 0 THEN [ok |-> FALSE, value |-> None]
     ELSE [ok |-> TRUE, value |-> lines[1]]

parse_router_output(raw_output) ==
  LET lines == NonBlank(raw_output.lines)
  IN IF Len(lines) = 0 THEN [ok |-> FALSE, value |-> None]
     ELSE IF Len(lines) > 1 THEN [ok |-> FALSE, value |-> None]
     ELSE [ok |-> TRUE, value |-> lines[1]]

Decision(prompt, source) == [ok |-> TRUE, selected_prompt |-> prompt, source |-> source, error |-> None]
Raise(error) == [ok |-> FALSE, selected_prompt |-> None, source |-> None, error |-> error]

\* Deterministic decision for a workflow/step_index state: the workflow's
\* step, validated against the allowlist and the prompt files.
workflowDecision(st, review_every_n_cycles, allowlist, present) ==
  LET wf == get_workflow(st.workflow_name, review_every_n_cycles)
      candidate_norm == normalize_prompt_token(resolve_step(wf, st.step_index))
  IN IF ~wf.ok THEN Raise("ValueError")
     ELSE IF candidate_norm \notin normalize_allowlist(allowlist) THEN Raise("NotAllowedError")
     ELSE IF resolve_prompt_path(candidate_norm) \notin present THEN Raise("NotFoundError")
     ELSE Decision(candidate_norm, "workflow")

\* Router override: the single line of the router output, validated against
\* the allowlist and the prompt files.
routerOverride(router_out, allowlist, present) ==
  LET override == parse_router_output(router_out)
      override_norm == normalize_prompt_token(override.value)
  IN IF ~override.ok THEN Raise("ValueError")
     ELSE IF override_norm \notin normalize_allowlist(allowlist) THEN Raise("NotAllowedError")
     ELSE IF resolve_prompt_path(override.value) \notin present THEN Raise("NotFoundError")
     ELSE Decision(override_norm, "router")

\* select_prompt_with_mode whose router_only branch falls back to the
\* deterministic route when there is no router output.
select_prompt_with_mode_only_falls_back(deterministic, override, router_mode, router_out) ==
  LET mode == normalize_router_mode(router_mode)
  IN IF mode = "ValueError" THEN Raise("ValueError")
     ELSE IF mode = "router_only"
     THEN IF Falsy(router_out) THEN deterministic
          ELSE override
     ELSE IF mode = "router_first"
     THEN IF ~Falsy(router_out) THEN override
          ELSE deterministic
     ELSE IF ~deterministic.ok THEN deterministic
          ELSE IF ~Falsy(router_out) THEN override
          ELSE deterministic

\* select_prompt_with_mode whose router_first branch computes the
\* deterministic route before applying the override, as router_default does.
select_prompt_with_mode_first_as_default(deterministic, override, router_mode, router_out) ==
  LET mode == normalize_router_mode(router_mode)
  IN IF mode = "ValueError" THEN Raise("ValueError")
     ELSE IF mode = "router_only"
     THEN IF Falsy(router_out) THEN Raise("ValueError")
          ELSE override
     ELSE IF ~deterministic.ok THEN deterministic
          ELSE IF ~Falsy(router_out) THEN override
          ELSE deterministic

\* select_prompt_with_mode whose router_default branch keeps the
\* deterministic decision when router output is present.
select_prompt_with_mode_default_keeps_deterministic(deterministic, override, router_mode, router_out) ==
  LET mode == normalize_router_mode(router_mode)
  IN IF mode = "ValueError" THEN Raise("ValueError")
     ELSE IF mode = "router_only"
     THEN IF Falsy(router_out) THEN Raise("ValueError")
          ELSE override
     ELSE IF mode = "router_first"
     THEN IF ~Falsy(router_out) THEN override
          ELSE deterministic
     ELSE deterministic

\* select_prompt_with_mode whose router_default branch looks at the router
\* output before the deterministic route, as router_first does.
select_prompt_with_mode_default_as_first(deterministic, override, router_mode, router_out) ==
  LET mode == normalize_router_mode(router_mode)
  IN IF mode = "ValueError" THEN Raise("ValueError")
     ELSE IF mode = "router_only"
     THEN IF Falsy(router_out) THEN Raise("ValueError")
          ELSE override
     ELSE IF ~Falsy(router_out) THEN override
          ELSE deterministic

\* select_prompt_with_mode: dispatch on the router mode.  deterministic and
\* override are the results of the deterministic route and of the router
\* override for the state at hand (each a decision or the error it raises).
select_prompt_with_mode(deterministic, override, router_mode, router_out) ==
  LET mode == normalize_router_mode(router_mode)
  IN IF mode = "ValueError" THEN Raise("ValueError")
     ELSE IF mode = "router_only"
     THEN IF Falsy(router_out) THEN Raise("ValueError")
          ELSE override
     ELSE IF mode = "router_first"
     THEN IF ~Falsy(router_out) THEN override
          ELSE deterministic
     ELSE IF ~deterministic.ok THEN deterministic
          ELSE IF ~Falsy(router_out) THEN override
          ELSE deterministic

\* --------------------------------------------------------------- runner.py

\* select_prompt handing the context's router output on whether or not the
\* router is in use.
select_prompt_passes_output(st, ctx, present) ==
  select_prompt_with_mode(workflowDecision(st, ctx.review_every_n_cycles, ctx.allowlist, present),
                          routerOverride(ctx.router_output, ctx.allowlist, present),
                          ctx.router_mode, ctx.router_output)

\* select_prompt(state, ctx, logger): with use_router off the router output
\* of the context is not passed on.
select_prompt(st, ctx, present) ==
  LET deterministic == workflowDecision(st, ctx.review_every_n_cycles, ctx.allowlist, present)
  IN IF ~ctx.use_router
     THEN select_prompt_with_mode(deterministic,
                                  routerOverride(NoOutput, ctx.allowlist, present),
                                  ctx.router_mode, NoOutput)
     ELSE select_prompt_with_mode(deterministic,
                                  routerOverride(ctx.router_output, ctx.allowlist, present),
                                  ctx.router_mode, ctx.router_output)

\* ---------------------------------------------------------- the state file

Absent == [kind |-> "absent", doc |-> <<>>]
Garbage == [kind |-> "garbage", doc |-> <<>>]
\* A file whose bytes are not UTF-8 text: reading it raises UnicodeDecodeError,
\* a ValueError that is neither a JSONDecodeError nor an OSError.
Undecodable == [kind |-> "undecodable", doc |-> <<>>]

\* _check_exit_signal(state_file) / the inline check of loop.main: the exit
\* field of a readable JSON document.
check_exit_signal(d) == d.kind = "json" /\ Get(d.doc, "exit", FALSE)

\* The exit check catches (json.JSONDecodeError, OSError) only: any other
\* exception of the read leaves main() uncaught.
check_exit_signal_raises(d) == d.kind = "undecodable"

\* A file holding valid JSON that is not an object ([] or null).
NonObject == [kind |-> "nonobject", doc |-> <<>>]

\* OrchestrationState.read catches what open and json.load raise and nothing
\* after them: data.get on a document that is not an object raises.
read_raises(d) == d.kind = "nonobject"

\* ---------------------------------------------------------- orchestrator.py

\* build_combined_contexts: both roles get the same RouterContext.
RouterContext(a, router_out) ==
  [allowlist |-> a.router_allowlist,
   review_every_n_cycles |-> a.workflow_review_every_n,
   router_mode |-> a.router_mode,
   router_output |-> router_out,
   use_router |-> a.use_router]

RoleCommit(role, st, status, increment_step, sha, t) ==
  IF role = "galph"
  THEN stamp(st, None, status, increment_step, sha, None, t)
  ELSE stamp(st, None, status, increment_step, None, sha, t)

\* _fail() recording the commit but not the failed status.
fail_keeps_status(role, st, sha, t) == RoleCommit(role, st, None, FALSE, sha, t)

\* _fail(role, message): log, stamp failed, write, return 2.
fail(role, st, sha, t) == RoleCommit(role, st, "failed", FALSE, sha, t)

Observe(h, field, value) == [h EXCEPT ![field] = value]

\* The state as persisted: what OrchestrationState.read gives for the file.
Persisted == Read(disk, now)
PersistedNext == Read(disk', now')

\* History kept beside the program state.
Hist0(st) ==
  [executed |-> <<>>,        \* executor calls: [role, prompt]
   returned |-> <<>>,        \* their results, 0.. or -1 for an exception
   stamps |-> 0,             \* number of stamp() calls
   writes |-> 0,             \* number of state_writer calls
   errors |-> 0,             \* number of "[orchestrator] ERROR" log lines
   step0 |-> st.step_index,  \* step_index when the program started
   iter_start |-> st,        \* state when the current iteration started
   turn_start |-> st,        \* state when the current turn started
   calls0 |-> 0,             \* executor calls made before the current iteration
   posts |-> <<>>,           \* post_turn calls of this iteration: the role,
                             \* and the step_index the file held at the call
   resumed |-> {},           \* states whose commits a push-only resume published
   pushed |-> "none",        \* the last push_with_rebase: none | ok | failed
   pulled |-> "none",        \* the last safe_pull: none | ok | failed
   outcome |-> "none"]       \* how the last turn ended: ok | rc | exception | preturn

\* The loop head with the range check one iteration too late.
CheckExitSignal_one_more ==
  /\ prog = "combined" /\ pc = "loop_head"
  /\ IF loop_i > args.sync_loops
     THEN pc' = "exited" /\ rc' = 0 /\ loop_i' = loop_i
     ELSE IF check_exit_signal_raises(disk)
     THEN pc' = "crashed" /\ rc' = rc /\ loop_i' = loop_i + 1
     ELSE IF check_exit_signal(disk)
     THEN pc' = "exited" /\ rc' = 0 /\ loop_i' = loop_i + 1
     ELSE pc' = "router" /\ rc' = rc /\ loop_i' = loop_i + 1
  /\ UNCHANGED <<prog, args, files, disk, state, router_output, turn, now, head, hist>>

\* _run_combined, loop head (for _ in range(sync_loops)) and exit check.
CheckExitSignal ==
  /\ prog = "combined" /\ pc = "loop_head"
  /\ IF loop_i >= args.sync_loops
     THEN pc' = "exited" /\ rc' = 0 /\ loop_i' = loop_i
     ELSE IF check_exit_signal_raises(disk)
     THEN pc' = "crashed" /\ rc' = rc /\ loop_i' = loop_i + 1
     ELSE IF check_exit_signal(disk)
     THEN pc' = "exited" /\ rc' = 0 /\ loop_i' = loop_i + 1
     ELSE pc' = "router" /\ rc' = rc /\ loop_i' = loop_i + 1
  /\ UNCHANGED <<prog, args, files, disk, state, router_output, turn, now, head, hist>>

\* What run_router_prompt can give: an exception (non-zero rc of the router
\* process, launch failure) or the router's stdout.
RouterOutputs ==
  {Output(<<"reviewer">>), Output(<<"evil.md">>), Output(<<>>),
   Output(<<"", "main.txt", "">>), Output(<<"main.md", "supervisor.md">>)}

PreTurnFail ==
  /\ state' = fail("galph", state, head, now)
  /\ disk' = Write(state')
  /\ hist' = [hist EXCEPT !.stamps = @ + 1, !.writes = @ + 1, !.errors = @ + 1,
                          !.outcome = "preturn"]
  /\ pc' = "exited" /\ rc' = FailRc
  /\ UNCHANGED router_output

\* _run_combined, router prompt of the iteration (lines 405-413).
RouterPromptMissing ==
  /\ prog = "combined" /\ pc = "router"
  /\ args.use_router /\ args.router_prompt # ""
  /\ resolve_prompt_path(args.router_prompt) \notin files
  /\ PreTurnFail
  /\ UNCHANGED <<prog, args, files, loop_i, turn, now, head>>

RouterPromptFails ==
  /\ prog = "combined" /\ pc = "router"
  /\ args.use_router /\ args.router_prompt # ""
  /\ resolve_prompt_path(args.router_prompt) \in files
  /\ PreTurnFail
  /\ UNCHANGED <<prog, args, files, loop_i, turn, now, head>>

RunRouterPrompt ==
  /\ prog = "combined" /\ pc = "router"
  /\ IF args.use_router /\ args.router_prompt # ""
     THEN /\ resolve_prompt_path(args.router_prompt) \in files
          /\ \E out \in RouterOutputs : router_output' = out
     ELSE router_output' = NoOutput
  /\ pc' = "iteration"
  /\ UNCHANGED <<prog, args, files, disk, state, loop_i, turn, rc, now, head, hist>>

\* run_combined_iteration, lines 277-278: status running, persist.
BeginIteration ==
  /\ prog = "combined" /\ pc = "iteration"
  /\ state' = [state EXCEPT !.status = "running"]
  /\ disk' = Write(state')
  /\ turn' = [role |-> "galph", selected_prompt |-> None]
  /\ hist' = [hist EXCEPT !.writes = @ + 1, !.iter_start = state,
                          !.turn_start = state, !.calls0 = Len(hist.executed),
                          !.posts = <<>>, !.outcome = "none"]
  /\ pc' = "select"
  /\ UNCHANGED <<prog, args, files, loop_i, router_output, rc, now, head>>

\* run_turn up to the executor call (runner.py 295-297): select the prompt,
\* record it as expected_step, start the executor.
SelectPrompt ==
  /\ prog = "combined" /\ pc = "select"
  /\ LET sel == select_prompt(state, RouterContext(args, router_output), files)
     IN /\ sel.ok
        /\ state' = [state EXCEPT !.expected_step = sel.selected_prompt]
        /\ turn' = [turn EXCEPT !.selected_prompt = sel.selected_prompt]
        /\ hist' = [hist EXCEPT !.executed = Append(@, [role |-> turn.role,
                                                        prompt |-> resolve_prompt_path(sel.selected_prompt)])]
  /\ pc' = "executor"
  /\ UNCHANGED <<prog, args, files, disk, loop_i, router_output, rc, now, head>>

\* run_combined_iteration, except-branch of a turn: _fail(role, ...).
TurnFail ==
  /\ state' = fail(turn.role, state, head, now')
  /\ disk' = Write(state')
  /\ pc' = "iter_return" /\ rc' = FailRc

\* select_prompt raises inside run_turn.
SelectPromptRaises ==
  /\ prog = "combined" /\ pc = "select"
  /\ ~select_prompt(state, RouterContext(args, router_output), files).ok
  /\ now' = now
  /\ TurnFail
  /\ hist' = [hist EXCEPT !.stamps = @ + 1, !.writes = @ + 1, !.errors = @ + 1,
                          !.outcome = "exception"]
  /\ UNCHANGED <<prog, args, files, loop_i, router_output, turn, head>>

\* The executor raises (agent command unresolvable, process launch fails).
ExecutorRaises ==
  /\ prog = "combined" /\ pc = "executor"
  /\ now' = now + 1
  /\ TurnFail
  /\ hist' = [hist EXCEPT !.stamps = @ + 1, !.writes = @ + 1, !.errors = @ + 1,
                          !.returned = Append(@, -1), !.outcome = "exception"]
  /\ UNCHANGED <<prog, args, files, loop_i, router_output, turn, head>>

\* run_turn after the executor call (runner.py 298-306).
AfterExecutor(st) ==
  IF args.use_router THEN [st EXCEPT !.last_prompt = turn.selected_prompt] ELSE st

\* A failed galph turn that falls through to the post-turn step and to
\* ralph's turn instead of returning.
ExecutorFails_falls_through ==
  /\ prog = "combined" /\ pc = "executor"
  /\ \E code \in ExitCodes \ {0} :
       /\ rc' = code
       /\ hist' = [hist EXCEPT !.stamps = @ + 1, !.writes = @ + 1,
                               !.returned = Append(@, code), !.outcome = "rc"]
  /\ now' = now + 1
  /\ state' = RoleCommit(turn.role, AfterExecutor(state), "failed", FALSE, head, now')
  /\ disk' = Write(state')
  /\ pc' = IF turn.role = "galph" THEN "post_turn" ELSE "iter_return"
  /\ UNCHANGED <<prog, args, files, loop_i, router_output, turn, head>>

\* A failed turn reported with the generic code 2 instead of the executor's.
ExecutorFails_returns_2 ==
  /\ prog = "combined" /\ pc = "executor"
  /\ \E code \in ExitCodes \ {0} :
       /\ rc' = FailRc
       /\ hist' = [hist EXCEPT !.stamps = @ + 1, !.writes = @ + 1,
                               !.returned = Append(@, code), !.outcome = "rc"]
  /\ now' = now + 1
  /\ state' = RoleCommit(turn.role, AfterExecutor(state), "failed", FALSE, head, now')
  /\ disk' = Write(state')
  /\ pc' = "iter_return"
  /\ UNCHANGED <<prog, args, files, loop_i, router_output, turn, head>>

\* The executor returns a non-zero code: stamp failed, persist, return it.
ExecutorFails ==
  /\ prog = "combined" /\ pc = "executor"
  /\ \E code \in ExitCodes \ {0} :
       /\ rc' = code
       /\ hist' = [hist EXCEPT !.stamps = @ + 1, !.writes = @ + 1,
                               !.returned = Append(@, code), !.outcome = "rc"]
  /\ now' = now + 1
  /\ state' = RoleCommit(turn.role, AfterExecutor(state), "failed", FALSE, head, now')
  /\ disk' = Write(state')
  /\ pc' = "iter_return"
  /\ UNCHANGED <<prog, args, files, loop_i, router_output, turn, head>>

\* A successful turn stamped in memory but not handed to state_writer.
ExecutorSucceeds_not_written ==
  /\ prog = "combined" /\ pc = "executor"
  /\ now' = now + 1
  /\ state' = RoleCommit(turn.role, AfterExecutor(state),
                         IF turn.role = "galph" THEN "waiting-next" ELSE "complete",
                         TRUE, head, now')
  /\ disk' = disk
  /\ hist' = [hist EXCEPT !.stamps = @ + 1,
                          !.returned = Append(@, 0), !.outcome = "ok"]
  /\ pc' = "post_turn"
  /\ UNCHANGED <<prog, args, files, loop_i, router_output, turn, rc, head>>

\* The executor returns 0: stamp with increment, persist.
ExecutorSucceeds ==
  /\ prog = "combined" /\ pc = "executor"
  /\ now' = now + 1
  /\ state' = RoleCommit(turn.role, AfterExecutor(state),
                         IF turn.role = "galph" THEN "waiting-next" ELSE "complete",
                         TRUE, head, now')
  /\ disk' = Write(state')
  /\ hist' = [hist EXCEPT !.stamps = @ + 1, !.writes = @ + 1,
                          !.returned = Append(@, 0), !.outcome = "ok"]
  /\ pc' = "post_turn"
  /\ UNCHANGED <<prog, args, files, loop_i, router_output, turn, rc, head>>

\* The sub-steps of the post-turn auto-commit, in the order they run.
AutocommitSubSteps == <<"reports", "tracked_outputs", "docs">>

NoSubSteps == [ran |-> <<>>, warnings |-> {}, escapes |-> FALSE]

\* Sub-steps run one after the other; one that raises is logged as a warning
\* when its call is inside try/except Exception, and ends the run otherwise.
RECURSIVE RunSubSteps(_, _, _)
RunSubSteps(steps, raising, guarded) ==
  IF steps = <<>> THEN NoSubSteps
  ELSE IF steps[1] \in raising /\ ~guarded
  THEN [ran |-> <<steps[1]>>, warnings |-> {}, escapes |-> TRUE]
  ELSE LET rest == RunSubSteps(Tail(steps), raising, guarded)
       IN [ran |-> <<steps[1]>> \o rest.ran,
           warnings |-> (IF steps[1] \in raising THEN {steps[1]} ELSE {}) \cup rest.warnings,
           escapes |-> rest.escapes]

\* run_combined_autocommit(role, logger, config, ...): every enabled sub-step
\* in its own try/except (all three are enabled by default).
run_combined_autocommit(a, raising) ==
  IF a.no_git THEN NoSubSteps ELSE RunSubSteps(AutocommitSubSteps, raising, TRUE)

\* post_turn(role, ...) = run_combined_autocommit: best effort, may commit.
\* After galph's: status running, persist, on to ralph's turn (lines 294-295).
\* After ralph's: return 0.  post_turn is called outside the try blocks of
\* run_combined_iteration: an exception leaving it would leave the program.
PostTurn ==
  /\ prog = "combined" /\ pc = "post_turn"
  /\ \E h \in Heads : head' = h
  /\ \E raising \in SUBSET {"reports", "tracked_outputs", "docs"} :
     IF run_combined_autocommit(args, raising).escapes
     THEN /\ pc' = "crashed" /\ rc' = rc
          /\ UNCHANGED <<state, disk, turn, hist>>
     ELSE IF turn.role = "galph"
     THEN /\ state' = [state EXCEPT !.status = "running"]
          /\ disk' = Write(state')
          /\ turn' = [role |-> "ralph", selected_prompt |-> None]
          /\ hist' = [hist EXCEPT !.writes = @ + 1, !.posts = Append(@, <<turn.role, Persisted.step_index>>),
                                  !.turn_start = state]
          /\ pc' = "select" /\ rc' = rc
     ELSE /\ hist' = [hist EXCEPT !.posts = Append(@, <<turn.role, Persisted.step_index>>)]
          /\ pc' = "iter_return" /\ rc' = 0
          /\ UNCHANGED <<state, disk, turn>>
  /\ UNCHANGED <<prog, args, files, loop_i, router_output, now>>

\* _run_combined, lines 481-484: stop on a non-zero code, else sleep and loop.
IterationReturn ==
  /\ prog = "combined" /\ pc = "iter_return"
  /\ pc' = IF rc # 0 THEN "exited" ELSE "loop_head"
  /\ UNCHANGED <<prog, args, files, disk, state, loop_i, router_output, turn, rc, now, head, hist>>

\* ------------------------------------------------------------------ loop.py

\* _is_loop_turn(state) that takes every step_index for the loop's turn.
is_loop_turn_always(st) == TRUE

\* _is_loop_turn(state)
is_loop_turn(st) == st.step_index % 2 = 1

\* What a successful git pull can bring into the working tree: nothing new,
\* or the supervisor's handoff from the other machine (its turn stamped on
\* an even step_index).
SupervisorHandoff(d, t) ==
  LET st == Read(d, t)
  IN IF is_loop_turn(st) THEN {d}
     ELSE {d, Write(stamp([st EXCEPT !.expected_step = "supervisor.md"],
                          None, "waiting-next", TRUE, "c0ffee1", None, t))}

\* _pull_with_error(logger, ctx): safe_pull's result, upgraded to True under
\* --allow-dirty.
pull_with_error_lenient(ok) == TRUE

pull_with_error(ok) == IF ~ok /\ args.allow_dirty THEN TRUE ELSE ok

\* The result of a safe_pull, kept in the history.
Pulled(ok) == [hist EXCEPT !.pulled = IF ok THEN "ok" ELSE "failed"]

\* A git pull made by the loop; pulled' tells whether the loop may go on.
Pull(goes_on, stopped) ==
  \E ok \in BOOLEAN :
    /\ IF ok THEN \E d \in SupervisorHandoff(disk, now) : disk' = d
             ELSE disk' = disk
    /\ hist' = Pulled(ok)
    /\ IF pull_with_error(ok) THEN pc' = goes_on /\ rc' = rc
                              ELSE pc' = stopped /\ rc' = GitFailRc

\* loop.main, lines 270-276: the initial pull.
LoopInitialPull ==
  /\ prog = "loop" /\ pc = "l_start"
  /\ IF args.no_git THEN pc' = "l_head" /\ rc' = rc /\ disk' = disk /\ hist' = hist
                    ELSE Pull("l_head", "exited")
  /\ UNCHANGED <<prog, args, files, state, loop_i, router_output, turn, now, head>>

\* loop.main, lines 278-290: loop head and exit check.
LoopCheckExit ==
  /\ prog = "loop" /\ pc = "l_head"
  /\ IF loop_i >= args.sync_loops
     THEN pc' = "exited" /\ rc' = 0 /\ loop_i' = loop_i
     ELSE IF check_exit_signal_raises(disk)
     THEN pc' = "crashed" /\ rc' = rc /\ loop_i' = loop_i + 1
     ELSE IF check_exit_signal(disk)
     THEN pc' = "exited" /\ rc' = 0 /\ loop_i' = loop_i + 1
     ELSE pc' = "l_probe" /\ rc' = rc /\ loop_i' = loop_i + 1
  /\ hist' = [hist EXCEPT !.outcome = "none"]
  /\ UNCHANGED <<prog, args, files, disk, state, router_output, turn, now, head>>

\* loop.main, lines 293-299: the per-iteration probe pull.
LoopProbe ==
  /\ prog = "loop" /\ pc = "l_probe"
  /\ IF args.no_git THEN pc' = "l_resume" /\ rc' = rc /\ disk' = disk /\ hist' = hist
                    ELSE Pull("l_resume", "exited")
  /\ UNCHANGED <<prog, args, files, state, loop_i, router_output, turn, now, head>>

\* loop.main, lines 307-328: resume mode.  A local stamped handoff that is
\* not pushed yet is published and the iteration is skipped.
LoopResume ==
  /\ prog = "loop" /\ pc = "l_resume"
  /\ IF ~args.sync_via_git
     THEN pc' = "l_select" /\ rc' = rc /\ state' = state /\ hist' = hist
     ELSE /\ state' = Read(disk, now)
          /\ \E has_unpushed_commits \in BOOLEAN, pushed \in BOOLEAN :
               IF (~is_loop_turn(state') \/ state'.status \in {"complete", "failed"})
                  /\ has_unpushed_commits
               THEN /\ hist' = [hist EXCEPT !.resumed = @ \cup {state'},
                                            !.pushed = IF pushed THEN "ok" ELSE "failed"]
                    /\ IF ~pushed THEN pc' = "exited" /\ rc' = GitFailRc
                                  ELSE pc' = "l_head" /\ rc' = rc
               ELSE pc' = "l_poll" /\ rc' = rc /\ hist' = hist
  /\ UNCHANGED <<prog, args, files, disk, loop_i, router_output, turn, now, head>>

\* loop.main, lines 330-340: poll (pull, read, sleep) until step_index is odd.
LoopPoll ==
  /\ prog = "loop" /\ pc = "l_poll"
  /\ \E ok \in BOOLEAN, timed_out \in BOOLEAN :
       /\ IF ok THEN \E d \in SupervisorHandoff(disk, now) : disk' = d
                ELSE disk' = disk
       /\ hist' = Pulled(ok)
       /\ IF ~pull_with_error(ok)
          THEN pc' = "exited" /\ rc' = GitFailRc /\ state' = state
          ELSE /\ state' = Read(disk', now)
               /\ IF is_loop_turn(state') THEN pc' = "l_select" /\ rc' = rc
                  ELSE IF args.max_wait_sec > 0 /\ timed_out
                  THEN pc' = "exited" /\ rc' = GitFailRc
                  ELSE pc' = "l_poll" /\ rc' = rc
  /\ UNCHANGED <<prog, args, files, loop_i, router_output, turn, now, head>>

\* _router_state() re-deriving step_index from iteration as the old schema did.
router_state_legacy(d, iteration_override, t) ==
  LET st0 == IF d.kind = "absent" THEN OrchestrationState(t) ELSE Read(d, t)
      st1 == IF args.workflow # "" THEN [st0 EXCEPT !.workflow_name = args.workflow] ELSE st0
  IN IF ~args.sync_via_git /\ iteration_override # 0
     THEN [st1 EXCEPT !.step_index = Max(0, iteration_override - 1),
                      !.iteration = iteration_override]
     ELSE [st1 EXCEPT !.step_index = Max(0, st1.iteration - 1)]

\* _router_state(iteration_override)
router_state(d, iteration_override, t) ==
  LET st0 == IF d.kind = "absent" THEN OrchestrationState(t) ELSE Read(d, t)
      st1 == IF args.workflow # "" THEN [st0 EXCEPT !.workflow_name = args.workflow] ELSE st0
  IN IF ~args.sync_via_git /\ iteration_override # 0
     THEN [st1 EXCEPT !.step_index = Max(0, iteration_override - 1),
                      !.iteration = iteration_override]
     ELSE st1

\* iteration_override=None if args.sync_via_git else (_ + 1); 0 stands for None.
IterationOverride == IF args.sync_via_git THEN 0 ELSE loop_i

\* What the router prompt of loop._select_prompt gives this iteration.
LoopRouterOutputs ==
  IF args.use_router /\ args.router_prompt # "" THEN RouterOutputs ELSE {NoOutput}

\* loop.main, lines 342-361: _select_prompt and _resolve_agent_cmd succeed.
LoopSelect ==
  /\ prog = "loop" /\ pc = "l_select"
  /\ args.use_router /\ args.router_prompt # ""
       => resolve_prompt_path(args.router_prompt) \in files
  /\ \E out \in LoopRouterOutputs :
       LET st == router_state(disk, IterationOverride, now)
           sel == select_prompt(st, RouterContext(args, out), files)
       IN /\ sel.ok
          /\ router_output' = out
          /\ state' = st
          /\ turn' = [role |-> "ralph", selected_prompt |-> sel.selected_prompt]
  /\ pc' = "l_turn"
  /\ UNCHANGED <<prog, args, files, disk, loop_i, rc, now, head, hist>>

\* loop.main, lines 348-361: the router prompt is missing or fails, the
\* selection raises, or no agent command resolves: return 2.
LoopSelectFails ==
  /\ prog = "loop" /\ pc = "l_select"
  /\ \E out \in LoopRouterOutputs, agent_resolves \in BOOLEAN :
       LET st == router_state(disk, IterationOverride, now)
       IN /\ \/ ~agent_resolves
             \/ args.use_router /\ args.router_prompt # ""
             \/ ~select_prompt(st, RouterContext(args, out), files).ok
          /\ state' = st
  /\ pc' = "exited" /\ rc' = FailRc
  /\ UNCHANGED <<prog, args, files, disk, loop_i, router_output, turn, now, head, hist>>

\* loop.main, lines 363-376: in sync mode mark the state running, write,
\* commit and push it; then start tee_run.
LoopStartTurn ==
  /\ prog = "loop" /\ pc = "l_turn"
  /\ IF args.sync_via_git
     THEN LET st0 == Read(disk, now)
              st1 == IF args.workflow # "" THEN [st0 EXCEPT !.workflow_name = args.workflow] ELSE st0
              st2 == IF args.use_router THEN [st1 EXCEPT !.last_prompt = turn.selected_prompt] ELSE st1
          IN /\ state' = [st2 EXCEPT !.expected_step = turn.selected_prompt, !.status = "running"]
             /\ disk' = Write(state')
             /\ hist' = [hist EXCEPT !.writes = @ + 1, !.turn_start = state',
                           !.executed = Append(@, [role |-> "ralph",
                                                   prompt |-> resolve_prompt_path(turn.selected_prompt)])]
     ELSE /\ hist' = [hist EXCEPT !.turn_start = state,
                        !.executed = Append(@, [role |-> "ralph",
                                                prompt |-> resolve_prompt_path(turn.selected_prompt)])]
          /\ UNCHANGED <<state, disk>>
  /\ pc' = "l_exec"
  /\ UNCHANGED <<prog, args, files, loop_i, router_output, turn, rc, now, head>>

\* ap.set_defaults(auto_commit_reports=True)
auto_commit_reports == TRUE

\* loop.main, lines 379-391: the reports auto-commit runs unless --no-git,
\* outside any try block.
loop_autocommit(a, raising) ==
  IF auto_commit_reports /\ ~a.no_git
  THEN RunSubSteps(<<"reports">>, raising, FALSE)
  ELSE NoSubSteps

\* loop.main, lines 376-424: tee_run returns and the reports auto-commit runs,
\* unguarded: an exception of autocommit_reports leaves main.  Then, in sync
\* mode, stamp first, write, commit, publish; a failed push stops with 1, a
\* failed turn with its code.
LoopExecutorReturns ==
  /\ prog = "loop" /\ pc = "l_exec"
  /\ now' = now + 1
  /\ \E code \in ExitCodes, pushed \in BOOLEAN, sha \in Heads, reports_raise \in BOOLEAN :
       /\ head' = sha
       /\ IF loop_autocommit(args, IF reports_raise THEN {"reports"} ELSE {}).escapes
          THEN /\ hist' = [hist EXCEPT !.returned = Append(@, code),
                                       !.outcome = "autocommit"]
               /\ pc' = "crashed" /\ rc' = rc
               /\ UNCHANGED <<state, disk>>
          ELSE IF args.sync_via_git
          THEN LET st0 == Read(disk, now')
                   st1 == IF args.workflow # "" THEN [st0 EXCEPT !.workflow_name = args.workflow] ELSE st0
               IN /\ state' = IF code = 0
                              THEN stamp(st1, None, "complete", TRUE, None, sha, now')
                              ELSE stamp(st1, None, "failed", FALSE, None, sha, now')
                  /\ disk' = Write(state')
                  /\ hist' = [hist EXCEPT !.stamps = @ + 1, !.writes = @ + 1,
                                          !.returned = Append(@, code),
                                          !.pushed = IF pushed THEN "ok" ELSE "failed",
                                          !.outcome = IF code = 0 THEN "ok" ELSE "rc"]
                  /\ IF ~pushed THEN pc' = "exited" /\ rc' = GitFailRc
                     ELSE IF code # 0 THEN pc' = "exited" /\ rc' = code
                     ELSE pc' = "l_head" /\ rc' = rc
          ELSE /\ hist' = [hist EXCEPT !.returned = Append(@, code)]
               /\ IF ~args.no_git /\ code = 0 /\ ~pushed
                  THEN pc' = "exited" /\ rc' = GitFailRc
                  ELSE pc' = "l_head" /\ rc' = rc
               /\ UNCHANGED <<state, disk>>
  /\ UNCHANGED <<prog, args, files, loop_i, router_output, turn>>

\* ------------------------------------------------------------- environment

\* An operator (or an agent) sets the exit flag in the state file, while an
\* executor runs or between two iterations (the other steps take no time, and
\* a flag set during them meets the same next write or the same next check).
ExternalExit ==
  /\ pc \in {"executor", "loop_head", "l_exec", "l_head"}
  /\ disk.kind = "json" /\ ~check_exit_signal(disk)
  /\ disk' = [disk EXCEPT !.doc = [k \in DOMAIN disk.doc \cup {"exit"} |->
                                     IF k = "exit" THEN TRUE ELSE disk.doc[k]]]
  /\ UNCHANGED <<prog, args, files, state, pc, loop_i, router_output, turn, rc, now, head, hist>>

\* ------------------------------------------- the functions, called alone

\* get_workflow and resolve_step called on a workflow name, a review cadence
\* and a step index (as test_workflows.py does): the prompt of the step and
\* the prompt one cycle later.
ResolveStep ==
  /\ prog = "resolve" /\ pc = "r_start"
  /\ LET wf == get_workflow(args.workflow, args.workflow_review_every_n)
     IN IF ~wf.ok
        THEN /\ pc' = "raised"
             /\ hist' = [error |-> "ValueError"]
        ELSE /\ pc' = "resolved"
             /\ hist' = [prompt |-> resolve_step(wf, args.step_index),
                         a_cycle_later |-> resolve_step(wf, args.step_index + wf.cycle_len)]
  /\ UNCHANGED <<prog, args, files, disk, state, loop_i, router_output, turn, rc, now, head>>

\* run_turn called on a state and a RouterContext (as the tests of
\* run_combined_iteration build them): selection up to the executor call.
\* The selection result, decision or error, is kept in hist.result.
RunTurnSelect ==
  /\ prog = "turn" /\ pc = "t_start"
  /\ LET sel == select_prompt(state, RouterContext(args, router_output), files)
     IN /\ hist' = [hist EXCEPT !.result = sel]
        /\ IF sel.ok
           THEN /\ state' = [state EXCEPT !.expected_step = sel.selected_prompt]
                /\ turn' = [turn EXCEPT !.selected_prompt = sel.selected_prompt]
                /\ pc' = "t_executor"
           ELSE /\ pc' = "raised"
                /\ UNCHANGED <<state, turn>>
  /\ UNCHANGED <<prog, args, files, disk, loop_i, router_output, rc, now, head>>

\* run_turn from the executor's return on (runner.py 297-306).
RunTurnReturns ==
  /\ prog = "turn" /\ pc = "t_executor"
  /\ \E code \in ExitCodes : rc' = code
  /\ state' = AfterExecutor(state)
  /\ pc' = "t_done"
  /\ UNCHANGED <<prog, args, files, disk, loop_i, router_output, turn, now, head, hist>>

\* ------------------------------------------------------------------- Init

WorkflowArgs == {<<"", 0>>, <<"review_cadence", 2>>, <<"nope", 0>>}
\* The combined loop is also run with a review in every cycle.
CombinedWorkflowArgs == WorkflowArgs \cup {<<"review_cadence", 1>>}
RouterArgs == {<<FALSE, "">>, <<TRUE, "">>, <<TRUE, "router.md">>}
Allowlists == {{"supervisor.md", "main.md", "reviewer"}, {"supervisor.md", "main.md"},
               {"supervisor.md", "reviewer.md"}}
FileSets == {PromptFiles} \cup {PromptFiles \ {f} : f \in {"supervisor.md", "main.md", "router.md"}}

CombinedArgs ==
  {[use_router |-> r[1], router_prompt |-> r[2], router_mode |-> m,
    workflow |-> w[1], workflow_review_every_n |-> w[2],
    router_allowlist |-> al, sync_loops |-> n,
    sync_via_git |-> FALSE, no_git |-> FALSE, allow_dirty |-> FALSE,
    max_wait_sec |-> 0] :
     r \in RouterArgs, m \in RouterModes, w \in CombinedWorkflowArgs,
     al \in Allowlists, n \in {1, MaxLoops}}

\* State documents found on disk at start: written by an earlier run (all
\* fields), by an older schema (no step_index), or hand-edited (iteration
\* out of step with step_index).
StartDocs ==
  {[OrchestrationState(0) EXCEPT !.step_index = s, !.iteration = s + 1]
     : s \in 0..MaxStep0}
  \cup {[OrchestrationState(0) EXCEPT !.step_index = s, !.iteration = 7,
                                      !.status = "complete", !.last_prompt = "main.md"]
     : s \in 0..MaxStep0}

StartDisks == {Absent, Garbage, Undecodable} \cup {Write(d) : d \in StartDocs}

\* _run_combined, lines 338-342: the state the loop starts from.
InitialState(d, a) ==
  LET st == IF d.kind = "absent" THEN OrchestrationState(0) ELSE Read(d, 0)
  IN IF a.workflow # "" THEN [st EXCEPT !.workflow_name = a.workflow] ELSE st

InitCombined ==
  /\ prog = "combined"
  /\ args \in CombinedArgs
  /\ files \in FileSets
  /\ disk \in StartDisks \cup {NonObject}
  /\ state = InitialState(disk, args)
  /\ pc = IF read_raises(disk) THEN "crashed" ELSE "loop_head"
  /\ loop_i = 0
  /\ router_output = NoOutput
  /\ turn = [role |-> "galph", selected_prompt |-> None]
  /\ rc = 0
  /\ now = 0
  /\ head = "c0ffee1"
  /\ hist = Hist0(state)

\* The state an earlier run of the engineer loop left when its turn failed:
\* stamped failed on the engineer's step_index, which was not incremented.
FailedDoc == [OrchestrationState(0) EXCEPT !.step_index = 1, !.iteration = 2,
                                           !.status = "failed",
                                           !.expected_step = "main.md"]

LoopModes == {<<TRUE, FALSE, FALSE>>, <<TRUE, FALSE, TRUE>>, <<FALSE, FALSE, FALSE>>,
              <<FALSE, TRUE, FALSE>>}

LoopArgs ==
  {[use_router |-> r[1], router_prompt |-> r[2], router_mode |-> m,
    workflow |-> w[1], workflow_review_every_n |-> w[2],
    router_allowlist |-> {"supervisor.md", "main.md", "reviewer"}, sync_loops |-> n,
    sync_via_git |-> g[1], no_git |-> g[2], allow_dirty |-> g[3],
    max_wait_sec |-> mw] :
     r \in RouterArgs, m \in {"router_default", "router_only"}, w \in WorkflowArgs,
     n \in {1, MaxLoops}, g \in LoopModes, mw \in {0, 1}}

InitLoop ==
  /\ prog = "loop"
  /\ args \in LoopArgs
  /\ files \in {PromptFiles, PromptFiles \ {"main.md"}}
  /\ disk \in StartDisks \cup {Write(FailedDoc)}
  /\ state = InitialState(disk, args)
  /\ pc = "l_start"
  /\ loop_i = 0
  /\ router_output = NoOutput
  /\ turn = [role |-> "ralph", selected_prompt |-> None]
  /\ rc = 0
  /\ now = 0
  /\ head = "c0ffee1"
  /\ hist = Hist0(state)

InitResolve ==
  /\ prog = "resolve"
  /\ args \in [workflow : WorkflowNames \cup {"standard2", "review_cadence2", "nope"},
               workflow_review_every_n : 0..MaxCadence,
               step_index : 0..MaxIndex]
  /\ files = {}
  /\ disk = Absent
  /\ state = OrchestrationState(0)
  /\ pc = "r_start"
  /\ loop_i = 0
  /\ router_output = NoOutput
  /\ turn = [role |-> "galph", selected_prompt |-> None]
  /\ rc = 0
  /\ now = 0
  /\ head = "c0ffee1"
  /\ hist = [prompt |-> None, a_cycle_later |-> None]

\* Router modes a context can carry: the three modes, aliases of them, no
\* mode, and a string that names none.
ContextModes == RouterModes \cup {None, "only", "first", "bogus"}

\* Router outputs a context can carry: none, or any text ("\n" is
\* Output(<<"">>)).
ContextOutputs == RouterOutputs \cup {NoOutput, Output(<<"">>)}

TurnWorkflowArgs == {<<"standard", 0>>, <<"review_cadence", 1>>, <<"review_cadence", 2>>,
                     <<"nope", 0>>}

TurnArgs ==
  {[use_router |-> u, router_mode |-> m,
    workflow |-> w[1], workflow_review_every_n |-> w[2],
    router_allowlist |-> al] :
     u \in BOOLEAN, m \in ContextModes, w \in TurnWorkflowArgs, al \in Allowlists}

InitTurn ==
  /\ prog = "turn"
  /\ args \in TurnArgs
  /\ files \in FileSets
  /\ disk = Absent
  /\ \E s \in 0..MaxStep0 :
       state = [OrchestrationState(0) EXCEPT !.workflow_name = args.workflow,
                                             !.step_index = s, !.iteration = s + 1,
                                             !.last_prompt = "router.md"]
  /\ pc = "t_start"
  /\ loop_i = 0
  /\ router_output \in ContextOutputs
  /\ turn = [role |-> "galph", selected_prompt |-> None]
  /\ rc = 0
  /\ now = 0
  /\ head = "c0ffee1"
  /\ hist = [result |-> Raise(None), start |-> state]

Init == InitCombined \/ InitLoop \/ InitResolve \/ InitTurn

Next ==
  \/ CheckExitSignal
  \/ RouterPromptMissing
  \/ RouterPromptFails
  \/ RunRouterPrompt
  \/ BeginIteration
  \/ SelectPrompt
  \/ SelectPromptRaises
  \/ ExecutorRaises
  \/ ExecutorFails
  \/ ExecutorSucceeds
  \/ PostTurn
  \/ IterationReturn
  \/ ResolveStep
  \/ RunTurnSelect
  \/ RunTurnReturns
  \/ LoopInitialPull
  \/ LoopCheckExit
  \/ LoopProbe
  \/ LoopResume
  \/ LoopPoll
  \/ LoopSelect
  \/ LoopSelectFails
  \/ LoopStartTurn
  \/ LoopExecutorReturns
  \/ ExternalExit

Spec == Init /\ [][Next]_vars

\* ------------------------------------------------- stamp() applied directly

\* States and arguments stamp() is exercised on.
StampStates ==
  {[OrchestrationState(0) EXCEPT !.step_index = s, !.iteration = IF off THEN 7 ELSE s + 1,
                                 !.status = st, !.expected_step = e, !.galph_commit = g]
     : s \in 0..MaxStep0, off \in BOOLEAN, st \in Statuses,
       e \in {None, "main.md"}, g \in {None, "c0ffee1"}}

StampArgs ==
  [expected_step : {None, "supervisor.md"},
   status : {None} \cup Statuses,
   increment_step : BOOLEAN,
   galph_commit : {None, "", "deadbee"},
   ralph_commit : {None, "deadbee"}]

InitStamp ==
  /\ prog = "stamp"
  /\ args \in StampArgs
  /\ files = {}
  /\ disk = Absent
  /\ state \in StampStates
  /\ pc = "fresh"
  /\ loop_i = 0
  /\ router_output = NoOutput
  /\ turn = [role |-> "galph", selected_prompt |-> None]
  /\ rc = 0
  /\ now = 0
  /\ head = "c0ffee1"
  /\ hist = [input |-> state, once |-> state]

\* state.stamp(**args), some time later.
StampOnce ==
  /\ prog = "stamp" /\ pc = "fresh"
  /\ now' = now + 1
  /\ state' = stamp(state, args.expected_step, args.status, args.increment_step,
                    args.galph_commit, args.ralph_commit, now')
  /\ hist' = [hist EXCEPT !.once = state']
  /\ pc' = "stamped"
  /\ UNCHANGED <<prog, args, files, disk, loop_i, router_output, turn, rc, head>>

\* The same call again, later still (re-application after a crash).
StampAgain ==
  /\ prog = "stamp" /\ pc = "stamped"
  /\ now' = now + 1
  /\ state' = stamp(state, args.expected_step, args.status, args.increment_step,
                    args.galph_commit, args.ralph_commit, now')
  /\ pc' = "restamped"
  /\ UNCHANGED <<prog, args, files, disk, loop_i, router_output, turn, rc, head, hist>>

NextStamp == StampOnce \/ StampAgain

StampSpec == InitStamp /\ [][NextStamp]_vars

\* ------------------------------------- state.py: write, then read back
\*
\* OrchestrationState.write and read on a directory, with a concurrent
\* reader of the state path.  Here `files` is the directory: the content at
\* the state path and at the temp path; `state` is the object written.

\* Fields annotated int; the others hold a str or None.
IntFields == {"step_index", "iteration", "last_update", "lease_expires_at"}

\* json.dump(self.__dict__): each attribute becomes a JSON number, string or
\* null under its own name.
json_dump(st) ==
  [k \in DOMAIN st |->
     IF k \in IntFields THEN [t |-> "number", v |-> st[k]]
     ELSE IF st[k] = None THEN [t |-> "null", v |-> 0]
     ELSE [t |-> "string", v |-> st[k]]]

\* A file: absent, holding a complete JSON text, or holding the beginning of one.
TextFile(json) == [kind |-> "text", doc |-> json]
PartialFile == [kind |-> "partial", doc |-> <<>>]

\* open + json.load: the parsed document, null read as None; json.load
\* raises on an incomplete text, open on a missing file.
json_load(file) ==
  IF file.kind = "text"
  THEN [kind |-> "json",
        doc |-> [k \in DOMAIN file.doc |->
                   IF file.doc[k].t = "null" THEN None ELSE file.doc[k].v]]
  ELSE Garbage

StatePath == "path"
\* tempfile.mkstemp(prefix="state.", suffix=".json", dir=...): a fresh name
\* in the directory of the state file.
mkstemp_at_path == "path"
mkstemp == "tmp"

\* The finally clause: the temp file is removed if it exists.
RemoveTemp(dir) == [dir EXCEPT ![mkstemp] = Absent]

InitStateFile ==
  /\ prog = "state_file"
  /\ args = [path |-> StatePath]
  /\ files \in [path : {Absent, PartialFile, TextFile(json_dump(OrchestrationState(0)))},
               tmp : {Absent}]
  /\ disk = Absent
  /\ state \in StampStates
  /\ pc = "fresh"
  /\ loop_i = 0
  /\ router_output = NoOutput
  /\ turn = [role |-> "galph", selected_prompt |-> None]
  /\ rc = 0
  /\ now = 1
  /\ head = "c0ffee1"
  /\ hist = [input |-> state, old |-> files[StatePath], seen |-> {}]

\* write(), line 62: the temp file is created, empty; or mkstemp raises.
WriteMkstemp ==
  /\ prog = "state_file" /\ pc = "fresh"
  /\ \/ pc' = "dumping" /\ files' = [files EXCEPT ![mkstemp] = PartialFile]
     \/ pc' = "write_raised" /\ files' = files
  /\ UNCHANGED <<prog, args, disk, state, loop_i, router_output, turn, rc, now, head, hist>>

\* write(), lines 64-66: the document is written to the temp file and the
\* file closed; or the write raises part-way and the finally clause runs.
WriteDump ==
  /\ prog = "state_file" /\ pc = "dumping"
  /\ \/ pc' = "dumped" /\ files' = [files EXCEPT ![mkstemp] = TextFile(json_dump(state))]
     \/ pc' = "write_raised" /\ files' = RemoveTemp(files)
  /\ UNCHANGED <<prog, args, disk, state, loop_i, router_output, turn, rc, now, head, hist>>

\* write(), line 67: os.replace moves the temp file onto the path in one
\* step; or it raises and the finally clause runs.
WriteReplace ==
  /\ prog = "state_file" /\ pc = "dumped"
  /\ \/ /\ pc' = "written"
        /\ files' = [[files EXCEPT ![StatePath] = files[mkstemp]] EXCEPT ![mkstemp] = Absent]
     \/ pc' = "write_raised" /\ files' = RemoveTemp(files)
  /\ UNCHANGED <<prog, args, disk, state, loop_i, router_output, turn, rc, now, head, hist>>

\* Another process opens the state path and reads it, at any moment.
ReaderReads ==
  /\ prog = "state_file"
  /\ files[StatePath] \notin hist.seen
  /\ hist' = [hist EXCEPT !.seen = @ \cup {files[StatePath]}]
  /\ UNCHANGED <<prog, args, files, disk, state, pc, loop_i, router_output, turn, rc, now, head>>

\* OrchestrationState.read(path) of the file just written, some time later.
ReadBack ==
  /\ prog = "state_file" /\ pc = "written"
  /\ now' = now + 1
  /\ state' = Read(json_load(files[StatePath]), now')
  /\ pc' = "read_back"
  /\ UNCHANGED <<prog, args, files, disk, loop_i, router_output, turn, rc, head, hist>>

NextStateFile ==
  \/ WriteMkstemp
  \/ WriteDump
  \/ WriteReplace
  \/ ReaderReads
  \/ ReadBack

StateFileSpec == InitStateFile /\ [][NextStateFile]_vars

\* ------------------------------------------------- runner.py: tee_run
\*
\* tee_run is modelled on its own, with the child process as environment.
\* The clock `now` counts from start_ts = 0 in units of the grace window of
\* _check_timeout (proc.wait(timeout=5)).  The variables hold:
\*   args   the environment settings [use_pty, heartbeat_secs, timeout_secs]
\*   state  tee_run's locals [last_output, last_beat, timed_out]
\*   turn   the child process `proc` and what it has put in its pipes or PTY
\*   hist   every write tee_run made, in order, and what was done to the child

\* Chunks of output and the runner's own lines.
Chunk(kind, n) == [kind |-> kind, n |-> n]
Line(kind, elapsed) == [kind |-> kind, n |-> elapsed]
HeaderLine == [kind |-> "$ cmd", n |-> 0]

\* One write to a sink at clock t.
WriteTo(events, sink, text, t) == Append(events, [sink |-> sink, text |-> text, at |-> t])

\* A text written to a terminal sink, then to the log (write, flush; write, flush).
Tee(events, sink, text, t) == WriteTo(WriteTo(events, sink, text, t), "log", text, t)

\* _write_chunk(chunk): nothing for an empty chunk, else note the time and tee
\* the text to stdout.  `v` is the pair [loc, ev] of locals and writes so far.
write_chunk(v, chunks, t) ==
  IF chunks = <<>> THEN v
  ELSE [loc |-> [v.loc EXCEPT !.last_output = t],
        ev |-> LET RECURSIVE all(_, _)
                   all(e, cs) == IF cs = <<>> THEN e
                                 ELSE all(Tee(e, "stdout", Head(cs), t), Tail(cs))
               IN all(v.ev, chunks)]

\* The stderr chunk teed without noting the time of the output.
write_stderr_chunk_untimed(v, chunks, t) ==
  IF chunks = <<>> THEN v
  ELSE [loc |-> v.loc, ev |-> Tee(v.ev, "stderr", Head(chunks), t)]

\* The stderr chunk of the pipe loop (lines 208-216): note the time, tee to stderr.
write_stderr_chunk(v, chunks, t) ==
  IF chunks = <<>> THEN v
  ELSE [loc |-> [v.loc EXCEPT !.last_output = t],
        ev |-> Tee(v.ev, "stderr", Head(chunks), t)]

\* The rest of stderr passed to the terminal but not to the log.
write_stderr_remaining_unlogged(v, chunks, t) ==
  LET RECURSIVE all(_, _)
      all(e, cs) == IF cs = <<>> THEN e
                    ELSE all(WriteTo(e, "stderr", Head(cs), t), Tail(cs))
  IN [loc |-> v.loc, ev |-> all(v.ev, chunks)]

\* The rest of stderr read after the child's exit (lines 223-229); last_output
\* is not touched.
write_stderr_remaining(v, chunks, t) ==
  LET RECURSIVE all(_, _)
      all(e, cs) == IF cs = <<>> THEN e
                    ELSE all(Tee(e, "stderr", Head(cs), t), Tail(cs))
  IN [loc |-> v.loc, ev |-> all(v.ev, chunks)]

\* _emit_heartbeat() (force is never passed).
emit_heartbeat(heartbeat_secs, v, t) ==
  IF heartbeat_secs <= 0 THEN v
  ELSE IF t - v.loc.last_output < heartbeat_secs THEN v
  ELSE IF t - v.loc.last_beat < heartbeat_secs THEN v
  ELSE [loc |-> [v.loc EXCEPT !.last_beat = t],
        ev |-> Tee(v.ev, "stdout", Line("still running", t), t)]

\* The value of the return statement (lines 188 and 234).
\* proc.returncode is <<>> for None and <<status>> once poll() or wait() has
\* seen the child's exit.
tee_returncode(returncode, timed_out) ==
  IF returncode # <<>> THEN returncode[1] ELSE IF timed_out THEN TimeoutRc ELSE 0

FirstOf(q) == IF q = <<>> THEN <<>> ELSE <<Head(q)>>
\* What is still buffered is dropped instead of read.
RestOf_dropped(q) == <<>>

RestOf(q) == IF q = <<>> THEN <<>> ELSE Tail(q)

\* Settings read from ORCHESTRATION_USE_PTY, ORCHESTRATION_PROMPT_HEARTBEAT_SECS
\* and ORCHESTRATION_PROMPT_TIMEOUT_SECS (negative or unparsable values are 0).
Heartbeats == {0, 1, 2}
Timeouts == {0, 1, 2}
\* Exit codes of a child that ends by itself or in a SIGTERM handler.
ChildCodes == {0, 1}

InitTee ==
  /\ prog = "tee_run"
  /\ args \in [use_pty : BOOLEAN, heartbeat_secs : Heartbeats, timeout_secs : Timeouts]
  /\ files = {}
  /\ disk = Absent
  /\ state = [last_output |-> 0, last_beat |-> 0, timed_out |-> FALSE]
  /\ pc = "opened"
  /\ loop_i = 0
  /\ router_output = NoOutput
  /\ turn = [alive |-> FALSE, status |-> 0, returncode |-> <<>>,
             out |-> <<>>, err |-> <<>>]
  /\ rc = 0
  /\ now = 0
  /\ head = "c0ffee1"
  /\ hist = [events |-> <<>>, produced |-> <<>>, signals |-> <<>>]

\* Lines 65-68 and 148-153: the command header goes to the log only; with a
\* heartbeat interval the start line is teed; then the child is started.
TeeStart ==
  /\ prog = "tee_run" /\ pc = "opened"
  /\ LET e0 == WriteTo(hist.events, "log", HeaderLine, now)
     IN hist' = [hist EXCEPT !.events = IF args.heartbeat_secs > 0
                                        THEN Tee(e0, "stdout", Line("start", now), now)
                                        ELSE e0]
  /\ \/ /\ pc' = "poll"
        /\ turn' = [turn EXCEPT !.alive = TRUE]
     \/ /\ pc' = "raised"      \* Popen raises: the command cannot be started
        /\ turn' = turn
  /\ UNCHANGED <<prog, args, files, disk, state, loop_i, router_output, rc, now, head>>

\* The child writes a chunk to its stdout or stderr; on a PTY both are the
\* slave side of the one terminal.
ChildWrites ==
  /\ prog = "tee_run" /\ pc = "poll" /\ turn.alive
  /\ Len(hist.produced) < MaxChunks
  /\ \E kind \in {"out", "err"} :
       LET chunk == Chunk(kind, Len(hist.produced) + 1)
       IN /\ turn' = IF args.use_pty \/ kind = "out"
                     THEN [turn EXCEPT !.out = Append(@, chunk)]
                     ELSE [turn EXCEPT !.err = Append(@, chunk)]
          /\ hist' = [hist EXCEPT !.produced = Append(@, chunk)]
  /\ UNCHANGED <<prog, args, files, disk, state, pc, loop_i, router_output, rc, now, head>>

\* The child exits by itself.
ChildExits ==
  /\ prog = "tee_run" /\ pc = "poll" /\ turn.alive
  /\ \E code \in ChildCodes : turn' = [turn EXCEPT !.alive = FALSE, !.status = code]
  /\ UNCHANGED <<prog, args, files, disk, state, pc, loop_i, router_output, rc, now, head, hist>>

\* Time passes.
Tick ==
  /\ prog = "tee_run" /\ pc = "poll" /\ now < MaxTime
  /\ now' = now + 1
  /\ UNCHANGED <<prog, args, files, disk, state, pc, loop_i, router_output, turn, rc, head, hist>>

\* The end of a loop iteration whose _check_timeout sends SIGTERM and waits,
\* but sends no SIGKILL when the wait times out.
EndOfIteration_never_kills(v, proc) ==
  LET hb == emit_heartbeat(args.heartbeat_secs, v, now)
  IN /\ pc' = "poll" /\ rc' = rc
     /\ IF args.timeout_secs <= 0 \/ hb.loc.timed_out \/ now < args.timeout_secs
        THEN /\ state' = hb.loc
             /\ hist' = [hist EXCEPT !.events = hb.ev]
             /\ turn' = proc
             /\ now' = now
        ELSE /\ state' = [hb.loc EXCEPT !.timed_out = TRUE]
             /\ hist' = [hist EXCEPT
                           !.events = Tee(hb.ev, "stdout", Line("timeout", now), now),
                           !.signals = IF proc.alive THEN Append(@, "SIGTERM") ELSE @]
             /\ \/ /\ \E status \in (IF proc.alive THEN {TermStatus} \cup ChildCodes
                                                   ELSE {proc.status}) :
                        turn' = [proc EXCEPT !.alive = FALSE, !.status = status,
                                             !.returncode = <<status>>]
                   /\ now' \in {now, now + GraceTicks}
                \/ /\ proc.alive
                   /\ turn' = proc
                   /\ now' = now + GraceTicks

\* The end of a loop iteration that did not break: _emit_heartbeat(), then
\* _check_timeout(proc) (lines 123-146).  On the timeout the marker line is
\* teed, the child gets SIGTERM and is waited for during the grace window:
\* it is gone by then (it had exited already, dies of the signal, or exits
\* from its handler), or the wait times out and it gets SIGKILL.
EndOfIteration(v, proc) ==
  LET hb == emit_heartbeat(args.heartbeat_secs, v, now)
  IN /\ pc' = "poll" /\ rc' = rc
     /\ IF args.timeout_secs <= 0 \/ hb.loc.timed_out \/ now < args.timeout_secs
        THEN /\ state' = hb.loc
             /\ hist' = [hist EXCEPT !.events = hb.ev]
             /\ turn' = proc
             /\ now' = now
        ELSE /\ state' = [hb.loc EXCEPT !.timed_out = TRUE]
             /\ \/ /\ \E status \in (IF proc.alive THEN {TermStatus} \cup ChildCodes
                                                   ELSE {proc.status}) :
                        turn' = [proc EXCEPT !.alive = FALSE, !.status = status,
                                             !.returncode = <<status>>]
                   /\ now' \in {now, now + GraceTicks}
                   /\ hist' = [hist EXCEPT
                                 !.events = Tee(hb.ev, "stdout", Line("timeout", now), now),
                                 !.signals = IF proc.alive THEN Append(@, "SIGTERM") ELSE @]
                \/ /\ proc.alive
                   /\ turn' = [proc EXCEPT !.alive = FALSE, !.status = KillStatus]
                   /\ now' = now + GraceTicks
                   /\ hist' = [hist EXCEPT
                                 !.events = Tee(hb.ev, "stdout", Line("timeout", now), now),
                                 !.signals = Append(Append(@, "SIGTERM"), "SIGKILL")]

\* break and return: the child's exit has been seen by poll().
BreakAndReturn(v, proc) ==
  /\ pc' = "returned"
  /\ state' = v.loc
  /\ hist' = [hist EXCEPT !.events = v.ev]
  /\ turn' = [proc EXCEPT !.returncode = <<proc.status>>]
  /\ rc' = tee_returncode(<<proc.status>>, v.loc.timed_out)
  /\ now' = now

\* One iteration of the PTY loop (lines 162-186).
TeePollPty ==
  /\ prog = "tee_run" /\ pc = "poll" /\ args.use_pty
  /\ LET v0 == [loc |-> state, ev |-> hist.events]
         v1 == write_chunk(v0, FirstOf(turn.out), now)
         proc == [turn EXCEPT !.out = RestOf(@)]
     IN IF turn.out = <<>> /\ ~turn.alive
        THEN BreakAndReturn(v0, turn)
        ELSE EndOfIteration(v1, proc)
  /\ UNCHANGED <<prog, args, files, disk, loop_i, router_output, head>>

\* One iteration of the pipe loop (lines 195-232): a chunk of stdout and a
\* chunk of stderr if ready; once the child has exited, the rest of both.
TeePollPipe ==
  /\ prog = "tee_run" /\ pc = "poll" /\ ~args.use_pty
  /\ LET v0 == [loc |-> state, ev |-> hist.events]
         v1 == write_chunk(v0, FirstOf(turn.out), now)
         v2 == write_stderr_chunk(v1, FirstOf(turn.err), now)
         v3 == write_chunk(v2, RestOf(turn.out), now)
         v4 == write_stderr_remaining(v3, RestOf(turn.err), now)
     IN IF ~turn.alive
        THEN BreakAndReturn(v4, [turn EXCEPT !.out = <<>>, !.err = <<>>])
        ELSE EndOfIteration(v2, [turn EXCEPT !.out = RestOf(@), !.err = RestOf(@)])
  /\ UNCHANGED <<prog, args, files, disk, loop_i, router_output, head>>

NextTee ==
  \/ TeeStart
  \/ ChildWrites
  \/ ChildExits
  \/ Tick
  \/ TeePollPty
  \/ TeePollPipe

TeeSpec == InitTee /\ [][NextTee]_vars

\* The loop keeps iterating (each select returns within 0.1 s) and the clock
\* keeps running; nothing is assumed of the child.
TeeLiveSpec ==
  TeeSpec /\ WF_vars(TeePollPty) /\ WF_vars(TeePollPipe) /\ WF_vars(Tick)

\* ------------------------------------------------------- agent_dispatch.py
\*
\* resolve_agent called on a role, a prompt key, a config and the two CLI
\* maps, the maps built from raw mappings as the callers and the tests build
\* them.  A map is a function from its keys; prog = "agent".

\* str.strip().lower() on the tokens used here.
StripLower(v) ==
  CASE v = "Galph" -> "galph"
    [] v = " loop" -> "loop"
    [] v = "Codex" -> "codex"
    [] OTHER -> v

\* normalize_agent_name(value)
normalize_agent_name(value) == IF value = "" THEN "auto" ELSE StripLower(value)

\* normalize_role_key(value) without the aliases.
normalize_role_key_no_alias(value) == StripLower(value)

\* normalize_role_key(value)
normalize_role_key(value) ==
  LET key == StripLower(value)
  IN CASE key = "galph" -> "supervisor"
       [] key = "ralph" -> "loop"
       [] OTHER -> key

\* canonical_prompt_key(token, prompts_dir), prompts_dir being "prompts": the
\* suffix .md is added when missing and the leading prompts/ is dropped.
canonical_prompt_key(token) ==
  CASE token = "main" -> "main.md"
    [] token = "prompts/main.md" -> "main.md"
    [] token = "prompts/reviewer" -> "reviewer.md"
    [] OTHER -> token

\* normalize_role_map(raw_map); parse_agent_map(raw, normalize_role_key)
\* builds the same map from "key=value,..." text.
normalize_role_map(raw_map) ==
  [k \in {normalize_role_key(x) : x \in DOMAIN raw_map} |->
     normalize_agent_name(raw_map[CHOOSE x \in DOMAIN raw_map : normalize_role_key(x) = k])]

\* normalize_prompt_map(raw_map, prompts_dir)
normalize_prompt_map(raw_map) ==
  [k \in {canonical_prompt_key(x) : x \in DOMAIN raw_map} |->
     normalize_agent_name(raw_map[CHOOSE x \in DOMAIN raw_map : canonical_prompt_key(x) = k])]

\* resolve_agent with the two role maps looked up before the prompt maps.
resolve_agent_roles_first(role, prompt_key, config, cli_role_map, cli_prompt_map) ==
  LET role_key == normalize_role_key(role)
      prompt_key_norm == canonical_prompt_key(prompt_key)
  IN IF role_key \in DOMAIN cli_role_map THEN cli_role_map[role_key]
     ELSE IF role_key \in DOMAIN config.role_map THEN config.role_map[role_key]
     ELSE IF prompt_key_norm \in DOMAIN cli_prompt_map THEN cli_prompt_map[prompt_key_norm]
     ELSE IF prompt_key_norm \in DOMAIN config.prompt_map THEN config.prompt_map[prompt_key_norm]
     ELSE normalize_agent_name(config.default_agent)

\* resolve_agent(role, prompt_key, config, cli_role_map, cli_prompt_map)
resolve_agent(role, prompt_key, config, cli_role_map, cli_prompt_map) ==
  LET role_key == normalize_role_key(role)
      prompt_key_norm == canonical_prompt_key(prompt_key)
  IN IF prompt_key_norm \in DOMAIN cli_prompt_map THEN cli_prompt_map[prompt_key_norm]
     ELSE IF role_key \in DOMAIN cli_role_map THEN cli_role_map[role_key]
     ELSE IF prompt_key_norm \in DOMAIN config.prompt_map THEN config.prompt_map[prompt_key_norm]
     ELSE IF role_key \in DOMAIN config.role_map THEN config.role_map[role_key]
     ELSE normalize_agent_name(config.default_agent)

\* A raw mapping with no key, or with one key.
RawMaps(keys, agents) ==
  {<<>>} \cup UNION {[{k} -> agents] : k \in keys}

\* Roles, prompt keys and raw mappings resolve_agent is exercised on.
AgentRoles == {"galph", "ralph", "supervisor", "loop", "Galph", " loop"}
AgentPromptKeys == {"main.md", "main", "prompts/main.md", "reviewer.md"}

AgentArgs ==
  [role : AgentRoles,
   prompt_key : AgentPromptKeys,
   default_agent : {"", "Codex"},
   role_map : RawMaps({"supervisor", "ralph"}, {"claude"}),
   prompt_map : RawMaps({"main", "reviewer.md"}, {"codex", "claude"}),
   cli_role_map : RawMaps({"galph", "loop"}, {"codex"}),
   cli_prompt_map : RawMaps({"prompts/main.md"}, {"claude", "gemini"})]

InitAgent ==
  /\ prog = "agent"
  /\ args \in AgentArgs
  /\ files = {}
  /\ disk = Absent
  /\ state = OrchestrationState(0)
  /\ pc = "a_start"
  /\ loop_i = 0
  /\ router_output = NoOutput
  /\ turn = [role |-> "galph", selected_prompt |-> None]
  /\ rc = 0
  /\ now = 0
  /\ head = "c0ffee1"
  /\ hist = [agent |-> None, for_canonical_role |-> None]

\* The AgentConfig and the CLI maps, built from the raw mappings.
AgentConfig(a) ==
  [default_agent |-> a.default_agent,
   role_map |-> normalize_role_map(a.role_map),
   prompt_map |-> normalize_prompt_map(a.prompt_map)]

\* resolve_agent on the role given, and on that role under its canonical
\* name (supervisor for galph, loop for ralph).
ResolveAgent ==
  /\ prog = "agent" /\ pc = "a_start"
  /\ LET config == AgentConfig(args)
         cli_role_map == normalize_role_map(args.cli_role_map)
         cli_prompt_map == normalize_prompt_map(args.cli_prompt_map)
     IN hist' = [agent |-> resolve_agent(args.role, args.prompt_key, config,
                                         cli_role_map, cli_prompt_map),
                 for_canonical_role |->
                   resolve_agent(normalize_role_key(args.role), args.prompt_key, config,
                                 cli_role_map, cli_prompt_map)]
  /\ pc' = "a_resolved"
  /\ UNCHANGED <<prog, args, files, disk, state, loop_i, router_output, turn, rc, now, head>>

NextAgent == ResolveAgent

AgentSpec == InitAgent /\ [][NextAgent]_vars

\* --------------------------------- router.py: deterministic_route alone
\*
\* deterministic_route called for galph's turn and then for ralph's turn of
\* one iteration, on the state the review tests build (iteration,
\* expected_actor, last_prompt, last_prompt_actor), the state between the two
\* calls updated as the supervisor writes it; prog = "route".

\* prompt_map.get(key), falsy when the key is missing.
MapGet(map, key) == IF key \in DOMAIN map THEN map[key] ELSE ""

\* _ensure_actor_allowed(candidate, expected_actor, prompt_map)
ensure_actor_allowed(candidate, expected_actor, prompt_map) ==
  LET candidate_norm == normalize_prompt_token(candidate)
      reviewer == MapGet(prompt_map, "reviewer")
  IN \/ candidate_norm = normalize_prompt_token(prompt_map[expected_actor])
     \/ reviewer # "" /\ candidate_norm = normalize_prompt_token(reviewer)

\* deterministic_route that skips the reviewer for ralph on last_prompt alone.
deterministic_route_no_actor(st, prompt_map, review_every_n, allowlist, present) ==
  IF st.expected_actor \notin DOMAIN prompt_map THEN Raise("ValueError")
  ELSE
    LET cadence == review_every_n > 0 /\ st.iteration % review_every_n = 0
        reviewer == MapGet(prompt_map, "reviewer")
        skipped == /\ st.expected_actor = "ralph"
                   /\ st.last_prompt # None
                   /\ normalize_prompt_token(st.last_prompt) = normalize_prompt_token(reviewer)
        candidate == IF cadence /\ ~skipped THEN reviewer ELSE prompt_map[st.expected_actor]
        candidate_norm == normalize_prompt_token(candidate)
    IN IF cadence /\ reviewer = "" THEN Raise("ValueError")
       ELSE IF candidate_norm \notin normalize_allowlist(allowlist) THEN Raise("ValueError")
       ELSE IF ~ensure_actor_allowed(candidate, st.expected_actor, prompt_map) THEN Raise("ValueError")
       ELSE IF resolve_prompt_path(candidate) \notin present THEN Raise("FileNotFoundError")
       ELSE Decision(candidate_norm, "deterministic")

\* deterministic_route(state, prompt_map, review_every_n, allowlist, prompts_dir)
deterministic_route(st, prompt_map, review_every_n, allowlist, present) ==
  IF st.expected_actor \notin DOMAIN prompt_map THEN Raise("ValueError")
  ELSE
    LET cadence == review_every_n > 0 /\ st.iteration % review_every_n = 0
        reviewer == MapGet(prompt_map, "reviewer")
        skipped == /\ st.expected_actor = "ralph"
                   /\ st.last_prompt # None
                   /\ normalize_prompt_token(st.last_prompt) = normalize_prompt_token(reviewer)
                   /\ st.last_prompt_actor = "galph"
        candidate == IF cadence /\ ~skipped THEN reviewer ELSE prompt_map[st.expected_actor]
        candidate_norm == normalize_prompt_token(candidate)
    IN IF cadence /\ reviewer = "" THEN Raise("ValueError")
       ELSE IF candidate_norm \notin normalize_allowlist(allowlist) THEN Raise("ValueError")
       ELSE IF ~ensure_actor_allowed(candidate, st.expected_actor, prompt_map) THEN Raise("ValueError")
       ELSE IF resolve_prompt_path(candidate) \notin present THEN Raise("FileNotFoundError")
       ELSE Decision(candidate_norm, "deterministic")

\* The prompt maps of the tests: reviewer named with or without its suffix,
\* or not at all.
PromptMaps ==
  {[galph |-> "supervisor.md", ralph |-> "main.md", reviewer |-> r] : r \in {"reviewer.md", "reviewer"}}
  \cup {[galph |-> "supervisor.md", ralph |-> "main.md"]}

\* allowlist = list(prompt_map.values())
MapValues(map) == {map[k] : k \in DOMAIN map}

RouteStates ==
  [iteration : 1..MaxIndex,
   expected_actor : {"galph"},
   last_prompt : {None, "main.md", "reviewer.md"},
   last_prompt_actor : {None, "galph", "ralph"}]

InitRoute ==
  /\ prog = "route"
  /\ args \in [prompt_map : PromptMaps,
               review_every_n : 0..MaxCadence,
               annotated : BOOLEAN]
  /\ files \in {PromptFiles, PromptFiles \ {"reviewer.md"}}
  /\ disk = Absent
  /\ state \in RouteStates
  /\ pc = "galph_turn"
  /\ loop_i = 0
  /\ router_output = NoOutput
  /\ turn = [role |-> "galph", selected_prompt |-> None]
  /\ rc = 0
  /\ now = 0
  /\ head = "c0ffee1"
  /\ hist = [start |-> state, galph |-> Raise(None), ralph |-> Raise(None)]

\* galph's turn of the iteration: the route, then the state as the supervisor
\* leaves it for ralph, with last_prompt_actor (args.annotated) or without.
RouteGalph ==
  /\ prog = "route" /\ pc = "galph_turn"
  /\ LET d == deterministic_route(state, args.prompt_map, args.review_every_n,
                                  MapValues(args.prompt_map), files)
     IN /\ hist' = [hist EXCEPT !.galph = d]
        /\ IF d.ok
           THEN /\ state' = [state EXCEPT !.last_prompt = d.selected_prompt,
                                          !.last_prompt_actor = IF args.annotated THEN "galph" ELSE None,
                                          !.expected_actor = "ralph"]
                /\ pc' = "ralph_turn"
           ELSE state' = state /\ pc' = "raised"
  /\ turn' = [turn EXCEPT !.role = "ralph"]
  /\ UNCHANGED <<prog, args, files, disk, loop_i, router_output, rc, now, head>>

\* ralph's turn of the same iteration.
RouteRalph ==
  /\ prog = "route" /\ pc = "ralph_turn"
  /\ hist' = [hist EXCEPT !.ralph =
                deterministic_route(state, args.prompt_map, args.review_every_n,
                                    MapValues(args.prompt_map), files)]
  /\ pc' = "routed"
  /\ UNCHANGED <<prog, args, files, disk, state, loop_i, router_output, turn, rc, now, head>>

NextRoute == RouteGalph \/ RouteRalph

RouteSpec == InitRoute /\ [][NextRoute]_vars

\* ================================================================ properties


\* Executor calls and results of the current run_combined_iteration.
IterExecuted == SubSeq(hist.executed, hist.calls0 + 1, Len(hist.executed))
IterReturned == SubSeq(hist.returned, hist.calls0 + 1, Len(hist.returned))

Last(q) == q[Len(q)]

\* Steps in which a git pull may bring a remote document into the file.
PullPcs == {"l_start", "l_probe", "l_poll"}

\* Fields of the state other than the two timestamps.
PlainFields == {"workflow_name", "step_index", "iteration", "expected_step",
                "status", "galph_commit", "ralph_commit", "last_prompt"}

SameOn(fields, a, b) == \A f \in fields : a[f] = b[f]

\* An iteration of the combined loop has returned, it started on workflow
\* standard at an even step_index, supervisor.md and main.md exist and are
\* allowlisted, and every executor call of the iteration returned 0.
StandardIterationReturned ==
  /\ prog = "combined" /\ pc = "iter_return"
  /\ hist.iter_start.workflow_name = "standard"
  /\ hist.iter_start.step_index % 2 = 0
  /\ {"supervisor.md", "main.md"} \subseteq files
  /\ {"supervisor.md", "main.md"} \subseteq normalize_allowlist(args.router_allowlist)
  /\ \A k \in 1..Len(IterReturned) : IterReturned[k] = 0

StandardIterationResult ==
  /\ IterExecuted = <<[role |-> "galph", prompt |-> "supervisor.md"],
                      [role |-> "ralph", prompt |-> "main.md"]>>
  /\ IterReturned = <<0, 0>>
  /\ rc = 0
  /\ state.step_index = hist.iter_start.step_index + 2
  /\ state.iteration = hist.iter_start.step_index + 3
  /\ state.expected_step = "main.md"
  /\ state.status = "complete"

\* The selection of this iteration is the deterministic workflow one: the
\* mode is not router_only and no router output is applied.
NoRouterOverride ==
  /\ normalize_router_mode(args.router_mode) # "router_only"
  /\ ~args.use_router \/ Falsy(router_output)

\* C1 (as stated), taken on the iterations in which both executors were
\* called and returned 0: an iteration started on workflow standard at an
\* even step_index s, with both prompt files present and allowlisted, runs
\* supervisor.md then main.md once each, returns 0 and ends at step_index
\* s + 2, iteration s + 3, expected_step main.md, status complete.
C1_AsStated ==
  (StandardIterationReturned /\ Len(IterReturned) = 2) => StandardIterationResult

\* C1 (amended): the same, provided the router mode is not router_only and
\* no router output is applied to the selection (use_router off, or the
\* router output absent or empty).
C1_StandardSequence ==
  (StandardIterationReturned /\ NoRouterOverride) => StandardIterationResult

C1_Witness ==
  /\ StandardIterationReturned /\ NoRouterOverride
  /\ hist.iter_start.step_index = 0 /\ state.step_index = 2
  /\ Len(IterExecuted) = 2

\* C2: in the combined loop and in the sync engineer loop every step leaves
\* step_index unchanged or adds exactly 1 to it, and it adds 1 exactly in the
\* steps in which an executor call returned 0; step_index never decreases.
ExecutorReturnedZero == hist'.returned = Append(hist.returned, 0)

C2_StepByOne ==
  [][ ((prog = "combined" \/ (prog = "loop" /\ args.sync_via_git)) /\ pc \notin PullPcs)
      => LET before == Persisted.step_index
             after == PersistedNext.step_index
         IN /\ after \in {before, before + 1}
            /\ ((after = before + 1) <=> ExecutorReturnedZero)
            /\ (prog = "combined" =>
                 /\ state'.step_index \in {state.step_index, state.step_index + 1}
                 /\ ((state'.step_index = state.step_index + 1) <=> ExecutorReturnedZero)) ]_vars

C2_Witness ==
  /\ prog = "loop" /\ args.sync_via_git /\ hist.outcome = "ok"
  /\ Persisted.step_index = hist.turn_start.step_index + 1
  /\ Last(hist.returned) = 0

\* C3: after a successful turn iteration = step_index + 1, in memory and as
\* persisted, whatever the two fields were before the turn.
C3_IterationTracksStep ==
  (prog \in {"combined", "loop"} /\ hist.outcome = "ok") =>
    /\ state.iteration = state.step_index + 1
    /\ Persisted.iteration = Persisted.step_index + 1

C3_Witness ==
  /\ prog = "combined" /\ hist.outcome = "ok" /\ pc = "post_turn"
  /\ hist.turn_start.iteration # hist.turn_start.step_index + 1
  /\ state.iteration = state.step_index + 1

\* C4: when a turn's executor returns a non-zero code, the iteration ends
\* with status failed, the state persisted, step_index and iteration as they
\* were when the turn started, and that code returned.
C4_FailedTurn ==
  (prog = "combined" /\ pc = "iter_return" /\ hist.outcome = "rc") =>
    /\ state.status = "failed"
    /\ Persisted = state
    /\ state.step_index = hist.turn_start.step_index
    /\ state.iteration = hist.turn_start.iteration
    /\ rc = Last(hist.returned) /\ rc # 0

C4_Witness ==
  /\ prog = "combined" /\ pc = "iter_return" /\ hist.outcome = "rc"
  /\ turn.role = "ralph" /\ rc = 124
  /\ state.step_index = hist.iter_start.step_index + 1

\* C5: an exception raised by the prompt selection or by the executor of a
\* turn is caught: one error is logged, the state is stamped failed and
\* persisted, 2 is returned and step_index is what it was when the turn began.
C5_ExceptionCaught ==
  (prog = "combined" /\ hist.outcome = "exception") =>
    /\ pc \in {"iter_return", "exited"}
    /\ hist.errors = 1
    /\ state.status = "failed"
    /\ Persisted = state
    /\ rc = 2
    /\ state.step_index = hist.turn_start.step_index

C5_Witness ==
  /\ prog = "combined" /\ hist.outcome = "exception" /\ pc = "iter_return"
  /\ Len(hist.returned) > 0 /\ Last(hist.returned) = -1
  /\ turn.role = "ralph"

\* C6: ralph's executor is invoked only after galph's turn of the same
\* iteration returned 0; after a failing or raising galph turn it is not
\* invoked.
C6_RalphAfterGalph ==
  prog = "combined" =>
    \A k \in 1..Len(hist.executed) :
      hist.executed[k].role = "ralph" =>
        /\ k > 1
        /\ hist.executed[k - 1].role = "galph"
        /\ hist.returned[k - 1] = 0

C6_Witness ==
  /\ prog = "combined" /\ pc = "executor" /\ turn.role = "ralph"
  /\ Len(hist.returned) = Len(hist.executed) - 1

\* A change of status to waiting-next, complete or failed.
EntersTerminal(before, after) ==
  after.status # before.status /\ after.status \in TerminalStatuses

\* C7: status becomes waiting-next, complete or failed only from running, in
\* memory and as persisted, on every path of the loops.
C7_StatusOnlyFromRunning ==
  [][ /\ ((prog = "combined" /\ EntersTerminal(state, state')) => state.status = "running")
      /\ ((prog \in {"combined", "loop"} /\ pc \notin PullPcs /\ disk' # disk
            /\ EntersTerminal(Persisted, PersistedNext))
           => Persisted.status = "running") ]_vars

\* Steps that call stamp() count it in hist.stamps.
NoStamp == hist'.stamps = hist.stamps

PersistedCountersKept ==
  (pc \notin PullPcs /\ disk' # disk) =>
    LET before == Persisted
        after == PersistedNext
    IN /\ after.step_index = before.step_index
       /\ after.iteration = before.iteration

MemoryCountersKept ==
  /\ state'.step_index = state.step_index
  /\ state'.iteration = state.iteration

\* In the engineer loop the state object is rebuilt from the file at each
\* use; it keeps the counters when they are those of the file.
MemoryCountersAsRead ==
  state' # state =>
    LET after == PersistedNext
    IN /\ state'.step_index = after.step_index
       /\ state'.iteration = after.iteration

\* C8 (as stated): no step other than stamp() changes step_index or
\* iteration; prompt selection, run_turn, the status writes, state read and
\* write and the router state preparation leave both unchanged.
C8_AsStated ==
  [][ (prog \in {"combined", "loop"} /\ NoStamp) =>
        /\ PersistedCountersKept
        /\ (prog = "combined" => MemoryCountersKept)
        /\ (prog = "loop" => MemoryCountersAsRead) ]_vars

\* C8 (amended): the same, except that _router_state of the engineer loop,
\* when not in sync-via-git mode, sets step_index and iteration of the copy
\* it returns for prompt selection from the loop counter; the file is not
\* touched by it.
C8_OnlyStampMoves ==
  [][ (prog \in {"combined", "loop"} /\ NoStamp) =>
        /\ PersistedCountersKept
        /\ (prog = "combined" => MemoryCountersKept)
        /\ ((prog = "loop" /\ args.sync_via_git) => MemoryCountersAsRead)
        /\ (prog = "loop" /\ ~args.sync_via_git /\ pc \notin PullPcs /\ disk' # disk)
             => SameOn(PlainFields, PersistedNext, Persisted) ]_vars

C8_Witness ==
  /\ prog = "loop" /\ args.sync_via_git /\ pc = "l_turn"
  /\ state.step_index = Persisted.step_index /\ state.step_index > 0
  /\ args.workflow # ""

\* C9: stamp() with increment_step=False is idempotent: a second application
\* with the same arguments changes none of workflow_name, step_index,
\* iteration, expected_step, status, galph_commit, ralph_commit, last_prompt.
C9_StampIdempotent ==
  (prog = "stamp" /\ pc = "restamped" /\ ~args.increment_step) =>
    SameOn(PlainFields, state, hist.once)

C9_Witness ==
  /\ prog = "stamp" /\ pc = "restamped" /\ ~args.increment_step
  /\ state.status # hist.input.status
  /\ state.last_update # hist.once.last_update

\* C10: while an executor runs, the file holds the state as mutated by the
\* preceding turn (everything but the expected_step just selected); while
\* ralph's executor runs it holds galph's increment and galph's post-turn
\* step has run, on a file that already held that increment.
C10_PersistedBeforeNextTurn ==
  (prog = "combined" /\ pc = "executor") =>
    /\ SameOn(StateFields \ {"expected_step"}, Persisted, state)
    /\ Persisted.status = "running"
    /\ (turn.role = "ralph" =>
         /\ Persisted.step_index = hist.iter_start.step_index + 1
         /\ hist.posts = <<<<"galph", hist.iter_start.step_index + 1>>>>
         /\ hist.returned[Len(hist.executed) - 1] = 0)

C10_Witness ==
  /\ prog = "combined" /\ pc = "executor" /\ turn.role = "ralph"
  /\ Persisted.step_index = 1 /\ Persisted.galph_commit = head

\* C11: once a turn has failed (its executor returned non-zero or raised),
\* the loop invocation makes no further executor call: the failed call is
\* the last one, in the combined loop and in the engineer loop, sync or not.
C11_FailFast ==
  prog \in {"combined", "loop"} =>
    \A i \in 1..Len(hist.returned) :
      hist.returned[i] # 0 => Len(hist.executed) = i

\* The exit field of the state file is truthy.
ExitFlagSet(d) == d.kind = "json" /\ "exit" \in DOMAIN d.doc /\ d.doc.exit = TRUE

LoopHeads == {"loop_head", "l_head"}

\* C12: the exit signal is read once per iteration, at the loop head and
\* before any work: with the exit field truthy the loop returns 0 without
\* starting a turn or writing state; with the file missing, unreadable or
\* malformed, or the flag unset, the iteration goes on; nowhere else does the
\* loop start an iteration or return 0.
C12_ExitCheckedAtLoopHead ==
  [][ (prog \in {"combined", "loop"}) =>
        /\ ((pc \in LoopHeads /\ pc' # pc /\ loop_i < args.sync_loops) =>
             /\ loop_i' = loop_i + 1
             /\ IF ExitFlagSet(disk)
                THEN /\ pc' = "exited" /\ rc' = 0
                     /\ disk' = disk /\ hist'.executed = hist.executed
                ELSE pc' \in {"router", "l_probe"})
        /\ ((pc \notin LoopHeads) =>
             /\ loop_i' = loop_i
             /\ (pc' = "exited" => rc' # 0)) ]_vars

\* The review cadence applies to the cycle of step index i: cadence N > 0
\* and (cycle + 1) a multiple of N.
CadenceApplies(n, i) == n > 0 /\ ((i \div CycleLen) + 1) % n = 0

\* The review cadence in force for the workflow called: only review_cadence
\* carries one.
CadenceOf(a) == IF a.workflow = "review_cadence" THEN a.workflow_review_every_n ELSE 0

BasePrompt(i) == IF i % 2 = 0 THEN "supervisor.md" ELSE "main.md"

\* C13: resolve_step is periodic with period 2: the prompt at step i is the
\* prompt at step i + 2 whenever the review cadence applies to neither
\* cycle; for workflow standard it is supervisor.md at every even index and
\* main.md at every odd index.
C13_ResolveStepPeriodic ==
  (prog = "resolve" /\ pc = "resolved") =>
    /\ (~CadenceApplies(CadenceOf(args), args.step_index)
        /\ ~CadenceApplies(CadenceOf(args), args.step_index + 2))
         => hist.prompt = hist.a_cycle_later
    /\ args.workflow = "standard" =>
         /\ hist.prompt = BasePrompt(args.step_index)
         /\ hist.a_cycle_later = hist.prompt

C13_Witness ==
  /\ prog = "resolve" /\ pc = "resolved"
  /\ args.workflow = "review_cadence" /\ args.workflow_review_every_n = 3
  /\ args.step_index = 1
  /\ hist.prompt = "main.md" /\ hist.a_cycle_later = "main.md"

\* C14: with review cadence N > 0, resolve_step gives the review prompt at
\* both steps of every cycle c with (c + 1) mod N = 0 and the base prompt
\* steps[i mod 2] at every other step; with N = 2, steps 2 and 3 give
\* reviewer.md and steps 0, 1, 4, 5 the base prompts; with N = 1 both turns of
\* a combined iteration execute reviewer.md.
C14_ReviewCadence ==
  /\ (prog = "resolve" /\ pc = "resolved" /\ args.workflow = "review_cadence"
      /\ args.workflow_review_every_n > 0) =>
       /\ hist.prompt = IF CadenceApplies(args.workflow_review_every_n, args.step_index)
                        THEN "reviewer.md" ELSE BasePrompt(args.step_index)
       /\ (args.workflow_review_every_n = 2 /\ args.step_index \in {2, 3})
            => hist.prompt = "reviewer.md"
       /\ (args.workflow_review_every_n = 2 /\ args.step_index \in {0, 4})
            => hist.prompt = "supervisor.md"
       /\ (args.workflow_review_every_n = 2 /\ args.step_index \in {1, 5})
            => hist.prompt = "main.md"
  /\ (prog = "combined" /\ pc \in {"executor", "post_turn", "iter_return"}
      /\ args.workflow = "review_cadence" /\ args.workflow_review_every_n = 1
      /\ NoRouterOverride) =>
       /\ \A k \in 1..Len(IterExecuted) : IterExecuted[k].prompt = "reviewer.md"
       /\ (pc = "iter_return" /\ rc = 0) =>
            IterExecuted = <<[role |-> "galph", prompt |-> "reviewer.md"],
                             [role |-> "ralph", prompt |-> "reviewer.md"]>>

C14_Witness ==
  /\ prog = "combined" /\ pc = "iter_return" /\ rc = 0
  /\ args.workflow = "review_cadence" /\ args.workflow_review_every_n = 1
  /\ NoRouterOverride
  /\ Len(IterExecuted) = 2 /\ IterExecuted[2].prompt = "reviewer.md"

\* The router output select_prompt hands to select_prompt_with_mode, and the
\* mode the latter dispatches on.
OutputPassed == IF args.use_router THEN router_output ELSE NoOutput
ModeInForce == normalize_router_mode(args.router_mode)
TurnSelected == prog = "turn" /\ pc \in {"raised", "t_executor", "t_done"}
InIteration == prog = "combined" /\ pc \in {"select", "executor", "post_turn", "iter_return"}

\* C15: in router_only mode, selection with absent or empty router output
\* fails with an error and gives no deterministic decision; inside
\* run_combined_iteration the iteration then returns 2 with status failed,
\* step_index unchanged and no executor invoked.
C15_RouterOnlyNeedsOutput ==
  /\ (TurnSelected /\ ModeInForce = "router_only" /\ Falsy(OutputPassed)) =>
       /\ pc = "raised"
       /\ hist.result = Raise("ValueError")
       /\ state = hist.start
  /\ (InIteration /\ ModeInForce = "router_only" /\ Falsy(OutputPassed)) =>
       /\ IterExecuted = <<>>
       /\ pc = "iter_return" =>
            /\ rc = FailRc
            /\ state.status = "failed" /\ Persisted.status = "failed"
            /\ state.step_index = hist.iter_start.step_index
            /\ Persisted.step_index = hist.iter_start.step_index

C15_Witness ==
  /\ prog = "combined" /\ pc = "iter_return"
  /\ args.use_router /\ args.router_mode = "router_only" /\ args.workflow = ""
  /\ router_output = Output(<<>>)
  /\ files = PromptFiles
  /\ rc = FailRc /\ state.status = "failed" /\ IterExecuted = <<>>

\* What the selection of the turn gives under another router mode, and what
\* the deterministic resolution gives, for the state the turn started from.
SelectedUnder(mode) ==
  select_prompt(hist.start, [RouterContext(args, router_output) EXCEPT !.router_mode = mode],
                files)
DeterministicResolution ==
  workflowDecision(hist.start, args.workflow_review_every_n, args.router_allowlist, files)

\* C16: in router_first mode the selection returns what router_only returns
\* (the same decision or the same error) when router output is present, and
\* what the deterministic resolution returns when it is absent.
C16_RouterFirst ==
  (TurnSelected /\ ModeInForce = "router_first") =>
    /\ ~Falsy(OutputPassed) => hist.result = SelectedUnder("router_only")
    /\ Falsy(OutputPassed) => hist.result = DeterministicResolution

C16_Witness ==
  /\ prog = "turn" /\ pc = "t_executor"
  /\ args.use_router /\ args.router_mode = "first" /\ args.workflow = "nope"
  /\ router_output = Output(<<"reviewer">>)
  /\ hist.result = Decision("reviewer.md", "router")

\* The prompt a router output names: its single non-blank line, normalized.
OutputPrompt(router_out) == normalize_prompt_token(parse_router_output(router_out).value)

\* In the combined loop the executor calls of the iteration all get the
\* prompt of the iteration's one router output.
SameOutputForBothTurns ==
  (InIteration /\ args.use_router /\ ModeInForce = "router_default"
   /\ ~Falsy(router_output)) =>
    \A k \in 1..Len(IterExecuted) : IterExecuted[k].prompt = OutputPrompt(router_output)

Allowed(token) ==
  \E item \in args.router_allowlist :
    normalize_prompt_token(item) = normalize_prompt_token(token)
Exists(token) == resolve_prompt_path(token) \in files
StartWorkflow == get_workflow(hist.start.workflow_name, args.workflow_review_every_n)

Malformed(router_out) == Len(NonBlank(router_out.lines)) # 1

\* The selection applies the router override to the output passed: always in
\* router_only and router_first, after a successful deterministic route in
\* router_default.
OverrideApplied ==
  /\ ~Falsy(OutputPassed)
  /\ \/ ModeInForce \in {"router_only", "router_first"}
     \/ ModeInForce = "router_default" /\ DeterministicResolution.ok

\* C19: a router output with no non-blank line or with more than one is
\* rejected with an error wherever a router override is applied (run_turn in
\* each mode, the combined loop, the engineer loop: no prompt is executed on
\* it); an unknown workflow name is rejected with an error by get_workflow and
\* never resolved as some default workflow.
C19_MalformedRejected ==
  /\ (TurnSelected /\ ~Falsy(OutputPassed) /\ Malformed(router_output)) =>
       /\ pc = "raised" /\ ~hist.result.ok
       /\ OverrideApplied => hist.result = Raise("ValueError")
  /\ (prog = "combined" /\ pc \in {"executor", "post_turn"} /\ ~Falsy(OutputPassed))
       => ~Malformed(router_output)
  /\ (InIteration /\ ~Falsy(OutputPassed) /\ Malformed(router_output)) =>
       /\ IterExecuted = <<>>
       /\ pc = "iter_return" => rc = FailRc /\ state.status = "failed"
  /\ (prog = "loop" /\ pc \in {"l_turn", "l_exec"} /\ ~Falsy(OutputPassed))
       => ~Malformed(router_output)
  /\ (prog = "resolve" /\ pc # "r_start" /\ args.workflow \notin WorkflowNames) =>
       pc = "raised" /\ hist = [error |-> "ValueError"]
  /\ (TurnSelected /\ hist.start.workflow_name \notin WorkflowNames) =>
       /\ hist.result.source # "workflow"
       /\ ~OverrideApplied => hist.result = Raise("ValueError")

C19_Witness ==
  /\ prog = "turn" /\ pc = "raised"
  /\ args.use_router /\ args.router_mode = "router_first"
  /\ router_output = Output(<<"main.md", "supervisor.md">>)
  /\ DeterministicResolution.ok
  /\ hist.result = Raise("ValueError")

\* With the router off the turn leaves last_prompt alone, in run_turn and
\* through the combined loop, and a combined iteration on workflow standard
\* that succeeds has executed the two workflow prompts of its steps.
RouterOffTurnEffects ==
  /\ (TurnSelected /\ ~args.use_router) => state.last_prompt = hist.start.last_prompt
  /\ (prog = "combined" /\ ~args.use_router) =>
       /\ state.last_prompt = hist.iter_start.last_prompt
       /\ (pc = "iter_return" /\ rc = 0 /\ state.workflow_name = "standard") =>
            IterExecuted = <<[role |-> "galph", prompt |-> BasePrompt(hist.iter_start.step_index)],
                             [role |-> "ralph", prompt |-> BasePrompt(hist.iter_start.step_index + 1)]>>

\* C20 as stated: with use_router False a router output in the context is
\* ignored and the selection is the deterministic workflow resolution for the
\* current step_index (a decision where that gives one, supervisor.md then
\* main.md for standard), and last_prompt is not modified by the turn.
C20_AsStated ==
  /\ (TurnSelected /\ ~args.use_router) =>
       /\ hist.result.ok = DeterministicResolution.ok
       /\ hist.result.ok => hist.result = DeterministicResolution
  /\ RouterOffTurnEffects

\* C20, amended: with use_router False and a router mode of router_default or
\* router_first (or none), a router output in the context is ignored: the
\* selection is the deterministic workflow resolution for the current
\* step_index, decision or error (supervisor.md then main.md for standard),
\* and last_prompt is not modified by the turn.
C20_RouterDisabled ==
  /\ (TurnSelected /\ ~args.use_router
      /\ ModeInForce \in {"router_default", "router_first"}) =>
       /\ hist.result = DeterministicResolution
       /\ (hist.result.ok /\ hist.start.workflow_name = "standard") =>
            hist.result = Decision(BasePrompt(hist.start.step_index), "workflow")
  /\ RouterOffTurnEffects

C20_Witness ==
  /\ prog = "turn" /\ pc = "t_done"
  /\ ~args.use_router /\ args.router_mode = "router_default" /\ args.workflow = "standard"
  /\ router_output = Output(<<"reviewer">>)
  /\ args.router_allowlist = {"supervisor.md", "main.md", "reviewer"}
  /\ hist.start.step_index = 1
  /\ hist.result = Decision("main.md", "workflow")
  /\ state.last_prompt = "router.md"

\* ------------------------------------------------------------ tee_run claims

\* The texts written to the terminal sinks, in order, and those written to
\* the log.
TerminalEvents == SelectSeq(hist.events, LAMBDA e : e.sink # "log")
LogEvents == SelectSeq(hist.events, LAMBDA e : e.sink = "log")
Teed(kind) ==
  /\ \E i \in 1..Len(hist.events) :
       hist.events[i].sink = "stdout" /\ hist.events[i].text.kind = kind
  /\ \E i \in 1..Len(hist.events) :
       hist.events[i].sink = "log" /\ hist.events[i].text.kind = kind

\* The timeout struck while the child was still running.
TimedOutRunning == prog = "tee_run" /\ hist.signals # <<>>

\* C21: when the timeout (> 0) is reached with the child still running, the
\* child gets a graceful terminate, a forced kill only after the grace window
\* has passed without its exit, the timeout line is written to stdout and the
\* log, and tee_run returns 124.
C21_TimeoutReturns124 ==
  TimedOutRunning =>
    /\ args.timeout_secs > 0 /\ state.timed_out
    /\ hist.signals \in {<<"SIGTERM">>, <<"SIGTERM", "SIGKILL">>}
    /\ Teed("timeout")
    /\ pc = "returned" => rc = TimeoutRc

IsChunk(e) == e.sink # "log" /\ e.text.kind \in {"out", "err"}
IsBeat(e) == e.sink = "stdout" /\ e.text.kind = "still running"
Beats(events) == SelectSeq(events, IsBeat)

\* When the last event satisfying `is` was written; 0, the start, if none was.
LastAt(events, is(_)) ==
  LET q == SelectSeq(events, is) IN IF q = <<>> THEN 0 ELSE q[Len(q)].at

\* A loop iteration that went on to _emit_heartbeat and did something.
PollStep ==
  /\ prog = "tee_run" /\ pc = "poll" /\ pc' = "poll"
  /\ hist'.produced = hist.produced
  /\ hist'.events # hist.events \/ state' # state \/ turn'.out # turn.out \/ turn'.err # turn.err

\* No two heartbeats closer than H, none within H of an earlier chunk; with
\* H = 0 neither a heartbeat nor the start line.
HeartbeatSpacing(events, h) ==
  /\ \A i, j \in 1..Len(events) :
       (i < j /\ IsBeat(events[j]) /\ (IsBeat(events[i]) \/ IsChunk(events[i])))
         => events[j].at - events[i].at >= h
  /\ h = 0 => \A i \in 1..Len(events) : events[i].text.kind \notin {"still running", "start"}

\* C22: with heartbeat interval H > 0 a poll step writes a 'still running'
\* line (stdout and log) exactly when at least H has passed since the last
\* output chunk (stdout or stderr; since the start if there was none) and at
\* least H since the last heartbeat (or the start); so heartbeats are never
\* closer than H, none follows a chunk within H, and with H = 0 no heartbeat
\* and no start line is written.
C22_Heartbeat ==
  [][ (prog = "tee_run") =>
        /\ Len(Beats(hist'.events)) > Len(Beats(hist.events)) => PollStep
        /\ PollStep =>
             (Len(Beats(hist'.events)) = Len(Beats(hist.events)) + 1
                <=> /\ args.heartbeat_secs > 0
                    /\ now - LastAt(hist'.events, IsChunk) >= args.heartbeat_secs
                    /\ now - LastAt(hist.events, IsBeat) >= args.heartbeat_secs)
        /\ PollStep => Len(Beats(hist'.events)) <= Len(Beats(hist.events)) + 1
        /\ Len(SelectSeq(hist'.events, LAMBDA e : e.text.kind = "still running"))
             = 2 * Len(Beats(hist'.events))
        /\ HeartbeatSpacing(hist'.events, args.heartbeat_secs) ]_vars

C22_Witness ==
  /\ prog = "tee_run" /\ ~args.use_pty /\ args.heartbeat_secs = 1
  /\ Len(Beats(hist.events)) = 2
  /\ \E i \in 1..Len(hist.events) : hist.events[i].sink = "stderr"
  /\ \E i, j \in 1..Len(hist.events) :
       i < j /\ IsChunk(hist.events[i]) /\ IsBeat(hist.events[j])

Texts(events) == [i \in 1..Len(events) |-> events[i].text]

\* The terminal sink a text belongs to: stderr for the stderr chunks of pipe
\* mode, stdout for everything else.
SinkOf(text) == IF text.kind = "err" /\ ~args.use_pty THEN "stderr" ELSE "stdout"

\* C23: in PTY and in pipe mode, what the log got after the command header is,
\* in the same order, what the terminal sinks got: every chunk, heartbeat,
\* start and timeout line goes to exactly one terminal sink (stderr chunks of
\* pipe mode to stderr, all else to stdout) and then to the log.
C23_LogMatchesTerminal ==
  (prog = "tee_run" /\ pc # "opened") =>
    /\ hist.events[1] = [sink |-> "log", text |-> HeaderLine, at |-> 0]
    /\ Texts(Tail(LogEvents)) = Texts(TerminalEvents)
    /\ \A i \in 2..Len(hist.events) :
         IF hist.events[i].sink = "log"
         THEN /\ hist.events[i - 1].sink # "log"
              /\ hist.events[i - 1].text = hist.events[i].text
         ELSE /\ hist.events[i].sink = SinkOf(hist.events[i].text)
              /\ i < Len(hist.events)
              /\ hist.events[i + 1].sink = "log"

C23_Witness ==
  /\ prog = "tee_run" /\ pc = "returned" /\ ~args.use_pty
  /\ Teed("timeout") /\ Teed("still running") /\ Teed("start")
  /\ hist.produced = <<Chunk("out", 1), Chunk("err", 2)>>
  /\ Len(TerminalEvents) = 5 /\ Len(LogEvents) = 6
  /\ \E i \in 1..5 : TerminalEvents[i].sink = "stderr"

OfKind(texts, kind) == SelectSeq(texts, LAMBDA x : x.kind = kind)
ChunkTexts(events) == SelectSeq(Texts(events), LAMBDA x : x.kind \in {"out", "err"})

\* C24: when tee_run returns, every chunk the child wrote has been delivered
\* to the terminal and to the log, each stream in the order written (on a PTY
\* the one stream of both), nothing is left in the pipe or PTY, and after a
\* normal exit of the child the value returned is the child's exit code.
C24_DrainedBeforeReturn ==
  (prog = "tee_run" /\ pc = "returned") =>
    /\ turn.out = <<>> /\ turn.err = <<>>
    /\ \A kind \in {"out", "err"} :
         /\ OfKind(Texts(TerminalEvents), kind) = OfKind(hist.produced, kind)
         /\ OfKind(Texts(LogEvents), kind) = OfKind(hist.produced, kind)
    /\ args.use_pty => ChunkTexts(TerminalEvents) = hist.produced
    /\ hist.signals = <<>> => rc = turn.status /\ rc \in ChildCodes

C24_Witness ==
  /\ prog = "tee_run" /\ pc = "returned" /\ ~args.use_pty
  /\ hist.signals = <<>> /\ ~state.timed_out /\ rc = 1
  /\ hist.produced = <<Chunk("out", 1), Chunk("out", 2)>>
  /\ ChunkTexts(LogEvents) = hist.produced

C26_RoundTrip ==
  (prog = "state_file" /\ pc = "read_back") =>
    \A f \in {"workflow_name", "step_index", "iteration", "expected_step", "status",
              "galph_commit", "ralph_commit", "last_prompt"} :
      state[f] = hist.input[f]

C26_Witness ==
  /\ prog = "state_file" /\ pc = "read_back"
  /\ hist.input.iteration # hist.input.step_index + 1
  /\ hist.input.expected_step = None /\ hist.input.galph_commit # None
  /\ state.iteration = hist.input.iteration
  /\ hist.old = PartialFile

\* What the state path may hold while s is being written over the old file.
OldOrNew == {hist.old, TextFile(json_dump(hist.input))}

\* C27: the state file is replaced atomically: at every moment of a write the
\* state path holds the complete previous document or the complete new one,
\* and so does every read of it; a write that raises before the rename leaves
\* the previous document at the path and no temp file in the directory.
C27_AtomicReplace ==
  prog = "state_file" =>
    /\ files[StatePath] \in OldOrNew
    /\ hist.seen \subseteq OldOrNew
    /\ pc \in {"fresh", "dumping", "dumped", "write_raised"} => files[StatePath] = hist.old
    /\ pc \in {"written", "read_back"} =>
         files[StatePath] = TextFile(json_dump(hist.input))
    /\ pc \in {"fresh", "write_raised", "written", "read_back"} => files["tmp"] = Absent

C27_Witness ==
  /\ prog = "state_file" /\ pc = "written"
  /\ hist.old = TextFile(json_dump(OrchestrationState(0)))
  /\ hist.seen = OldOrNew
  /\ Cardinality(hist.seen) = 2

\* -------------------------------------------------- engineer loop, sync mode

\* A step of the resume block that found a stamped state with unpushed
\* commits and attempted the push.
ResumePush == pc = "l_resume" /\ hist'.resumed # hist.resumed

\* The executor is started on the turn the persisted state shows.
ExecutorStarts == pc = "l_turn" /\ pc' = "l_exec"

\* C28: in sync mode, when the persisted state shows a turn stamped complete
\* or failed and there are unpushed commits, the loop only attempts a push: a
\* failed push stops the loop with exit code 1, nothing is executed or stamped
\* in that step, and the executor is never started again on a turn that a
\* resume has published.
C28_ResumeSkipsTurn ==
  [][(prog = "loop" /\ args.sync_via_git) =>
       /\ (ResumePush /\ state'.status \in {"complete", "failed"}) =>
            /\ pc' \in {"l_head", "exited"}
            /\ (pc' = "exited") => (rc' = 1)
            /\ disk' = disk
            /\ hist'.executed = hist.executed /\ hist'.stamps = hist.stamps
       /\ ExecutorStarts =>
            \A r \in hist.resumed :
              (r.status \in {"complete", "failed"}) =>
                ~SameOn({"step_index", "status"}, r, Read(disk, now))]_vars

\* tee_run has returned to the sync-mode loop with a non-zero code.
SyncTurnFailed ==
  /\ pc = "l_exec" /\ pc' # "l_exec"
  /\ Last(hist'.returned) # 0

\* C29: in sync mode a non-zero rc of the executed prompt is stamped as
\* status failed with step_index unchanged, the state is written (and
\* committed), the push is attempted, and the loop stops there: with rc when
\* the push succeeded, with 1 when it failed; no other turn is started.
C29_FailedTurnStops ==
  [][(prog = "loop" /\ args.sync_via_git) =>
       /\ SyncTurnFailed =>
            /\ state'.status = "failed"
            /\ state'.step_index = Persisted.step_index
            /\ disk' = Write(state') /\ PersistedNext.status = "failed"
            /\ hist'.stamps = hist.stamps + 1 /\ hist'.writes = hist.writes + 1
            /\ hist'.pushed \in {"ok", "failed"}
            /\ pc' = "exited"
            /\ rc' = IF hist'.pushed = "ok" THEN Last(hist'.returned) ELSE 1
       /\ (hist.outcome = "rc") =>
            /\ pc' = "exited" /\ rc' = rc
            /\ hist'.executed = hist.executed]_vars

C29_Witness ==
  /\ prog = "loop" /\ args.sync_via_git /\ pc = "exited"
  /\ hist.outcome = "rc" /\ hist.pushed = "ok"
  /\ Len(hist.executed) = 2 /\ hist.returned = <<0, 124>>
  /\ rc = 124 /\ state.status = "failed"
  /\ state.step_index = hist.turn_start.step_index

\* ------------------------------------------------- engineer loop, git pulls

\* A step of the loop in which safe_pull was called and failed.
PullFailed ==
  /\ pc \in PullPcs /\ (pc = "l_poll" \/ ~args.no_git)
  /\ pc' # pc \/ hist' # hist
  /\ hist'.pulled = "failed"

\* Where the loop goes from a pull that succeeded and brought nothing new.
AfterPull ==
  IF pc = "l_start" THEN {"l_head"}
  ELSE IF pc = "l_probe" THEN {"l_resume"}
  ELSE IF is_loop_turn(Persisted) THEN {"l_select"}
  ELSE IF args.max_wait_sec > 0 THEN {"l_poll", "exited"}
  ELSE {"l_poll"}

\* C30: a failed git pull (initial, probe or polling) stops the engineer loop
\* with exit code 1 and no prompt is executed afterwards; under --allow-dirty
\* the loop goes on from the failed pull as from a successful one.
C30_FailedPullStops ==
  [][(prog = "loop") =>
       /\ (PullFailed /\ ~args.allow_dirty) =>
            /\ pc' = "exited" /\ rc' = 1
            /\ hist'.executed = hist.executed
       /\ (PullFailed /\ args.allow_dirty) =>
            /\ pc' \in AfterPull
            /\ (pc' # "exited") => (rc' = rc)
            /\ disk' = disk
       /\ (pc = "exited") => (hist'.executed = hist.executed /\ pc' = pc /\ rc' = rc)]_vars

C30_Witness ==
  /\ prog = "loop" /\ ~args.allow_dirty /\ ~args.no_git
  /\ pc = "exited" /\ rc = 1
  /\ hist.pulled = "failed" /\ hist.pushed = "ok"
  /\ loop_i = 2 /\ Len(hist.executed) = 1 /\ hist.returned = <<0>>

\* ------------------------------------------------------ post-turn auto-commit

\* The step in which the auto-commit after a turn runs: post_turn in the
\* combined loop, the return of tee_run in the engineer loop.
AutocommitStep == (pc = "post_turn" \/ pc = "l_exec") /\ pc' # pc

\* C31: whatever sub-step of the post-turn auto-commit raises, the program goes
\* on from the auto-commit as it does without a failure: it does not leave the
\* loop by the exception, the turn's stamp is made (engineer loop, sync mode)
\* and the return code is the turn's; in the combined loop and in the engineer
\* loop.
C31_AutocommitBestEffort ==
  [][(prog \in {"combined", "loop"} /\ AutocommitStep) =>
       /\ pc' # "crashed"
       /\ (prog = "combined") => (state'.step_index = state.step_index /\ hist'.stamps = hist.stamps)
       /\ (prog = "loop" /\ args.sync_via_git) =>
            /\ hist'.stamps = hist.stamps + 1
            /\ state'.status = IF Last(hist'.returned) = 0 THEN "complete" ELSE "failed"]_vars

\* ---------------------------------------------------------------- last_prompt

\* The executor call of the current turn returns code: in run_turn called
\* alone, in the combined loop, in the sync engineer loop.
TurnReturned(code) ==
  \/ prog = "turn" /\ pc = "t_executor" /\ pc' = "t_done" /\ rc' = code
  \/ /\ prog = "combined" \/ (prog = "loop" /\ args.sync_via_git)
     /\ hist'.returned = Append(hist.returned, code)
     /\ pc' # "crashed"

\* last_prompt as the program holds it after a step: in the state object, and
\* for the engineer loop in the state file it has written.
LastPromptNext == IF prog = "loop" THEN PersistedNext.last_prompt ELSE state'.last_prompt
LastPromptNow == IF prog = "loop" THEN Persisted.last_prompt ELSE state.last_prompt

\* C32: when a turn's executor returns 0, last_prompt becomes the name of the
\* prompt that turn executed, with the router enabled or not; when it returns
\* another code, or while the turn is only being started, last_prompt keeps
\* the value it had.
C32_LastPromptFollowsSuccess ==
  [][(prog \in {"turn", "combined", "loop"}) =>
       /\ TurnReturned(0) => (LastPromptNext = turn.selected_prompt)
       /\ (\E code \in ExitCodes \ {0} : TurnReturned(code)) => (LastPromptNext = LastPromptNow)
       /\ (prog = "loop" /\ args.sync_via_git /\ pc = "l_turn") =>
            (LastPromptNext = LastPromptNow)]_vars

\* ------------------------------------------------------------ agent dispatch

\* What a map gives for a key: nothing, or the agent.
Lookup(map, key) == IF key \in DOMAIN map THEN <<map[key]>> ELSE <<>>

\* The agents the five sources give, in the order of precedence, looked up
\* under the canonical role name and the canonical prompt key.
AgentCandidates ==
  LET role_key == IF args.role \in {"galph", "Galph"} THEN "supervisor"
                  ELSE IF args.role = "ralph" THEN "loop"
                  ELSE IF args.role = " loop" THEN "loop" ELSE args.role
      prompt_key == IF args.prompt_key = "reviewer.md" THEN "reviewer.md" ELSE "main.md"
  IN Lookup(normalize_prompt_map(args.cli_prompt_map), prompt_key)
     \o Lookup(normalize_role_map(args.cli_role_map), role_key)
     \o Lookup(AgentConfig(args).prompt_map, prompt_key)
     \o Lookup(AgentConfig(args).role_map, role_key)
     \o <<normalize_agent_name(args.default_agent)>>

\* C33: resolve_agent returns the agent of the first source that has the key,
\* in the order CLI prompt map, CLI role map, config prompt map, config role
\* map, default agent; and galph and ralph get what supervisor and loop get.
C33_AgentPrecedence ==
  (prog = "agent" /\ pc = "a_resolved") =>
    /\ hist.agent = Head(AgentCandidates)
    /\ hist.agent = hist.for_canonical_role

C33_Witness ==
  /\ prog = "agent" /\ pc = "a_resolved"
  /\ args.role = "galph" /\ args.prompt_key = "reviewer.md"
  /\ Len(AgentCandidates) = 4
  /\ AgentCandidates[1] = "codex" /\ AgentCandidates[2] = "claude"
  /\ hist.agent = "codex"

\* ------------------------------------------------------ reviewer, once a turn

\* The review cadence hits the iteration the two turns belong to.
CadenceHit == args.review_every_n > 0 /\ state.iteration % args.review_every_n = 0

\* C34: both turns of an iteration routed by deterministic_route, the
\* reviewer configured and its file present.  On a cadence iteration galph's
\* turn selects the reviewer; ralph's turn, finding last_prompt = reviewer and
\* last_prompt_actor = galph, selects main.md, and without that annotation
\* selects the reviewer too.  Off the cadence neither turn selects it.
C34_ReviewerOnce ==
  (prog = "route" /\ pc = "routed" /\ "reviewer" \in DOMAIN args.prompt_map
     /\ "reviewer.md" \in files) =>
    /\ hist.galph.ok /\ hist.ralph.ok
    /\ CadenceHit =>
         /\ hist.galph.selected_prompt = "reviewer.md"
         /\ hist.ralph.selected_prompt = IF args.annotated THEN "main.md" ELSE "reviewer.md"
    /\ ~CadenceHit =>
         /\ hist.galph.selected_prompt = "supervisor.md"
         /\ hist.ralph.selected_prompt = "main.md"

C34_Witness ==
  /\ prog = "route" /\ pc = "routed"
  /\ args.review_every_n = 2 /\ state.iteration = 2 /\ args.annotated
  /\ args.prompt_map = [galph |-> "supervisor.md", ralph |-> "main.md", reviewer |-> "reviewer"]
  /\ hist.galph.selected_prompt = "reviewer.md"
  /\ hist.ralph.selected_prompt = "main.md"
  /\ state.last_prompt = "reviewer.md" /\ state.last_prompt_actor = "galph"

\* ------------------------------------------------- the second prompt family

\* get_workflow and resolve_step have been applied to the workflow name.
ResolvedFor(name) == prog = "resolve" /\ args.workflow = name /\ pc # "r_start"

\* C35: get_workflow accepts standard2 and review_cadence2.  standard2 gives
\* supervisor2.md, main2.md, supervisor2.md for the steps 0, 1, 2;
\* review_cadence2 with review_every_n_cycles = 2 gives reviewer.md for the
\* steps 2 and 3 and supervisor2.md for step 4.
C35_SecondFamily ==
  /\ ResolvedFor("standard2") =>
       /\ pc = "resolved"
       /\ (args.step_index \in {0, 2}) => (hist.prompt = "supervisor2.md")
       /\ (args.step_index = 1) => (hist.prompt = "main2.md")
  /\ (ResolvedFor("review_cadence2") /\ args.workflow_review_every_n = 2) =>
       /\ pc = "resolved"
       /\ (args.step_index \in {2, 3}) => (hist.prompt = "reviewer.md")
       /\ (args.step_index = 4) => (hist.prompt = "supervisor2.md")

\* ------------------------------------------------------------- the exit flag

\* C36: an exit flag present in the state file stays there through every
\* step of the program itself (a git pull may replace the file and is left
\* aside), and the exit check at the loop head that finds it stops the loop
\* with code 0.
C36_ExitFlagSurvives ==
  [][(prog \in {"combined", "loop"} /\ pc \notin PullPcs /\ check_exit_signal(disk)) =>
       /\ check_exit_signal(disk')
       /\ (pc \in {"loop_head", "l_head"} /\ pc' # pc) => (pc' = "exited" /\ rc' = 0)]_vars

\* ------------------------------------------- engineer loop, turn discipline

Odd(n) == n % 2 = 1

\* A polling step whose pull did not stop the loop.
Polled == pc = "l_poll" /\ (hist'.pulled = "ok" \/ args.allow_dirty)

CombinedSteps ==
  \/ CheckExitSignal
  \/ RouterPromptMissing
  \/ RouterPromptFails
  \/ RunRouterPrompt
  \/ BeginIteration
  \/ SelectPrompt
  \/ SelectPromptRaises
  \/ ExecutorRaises
  \/ ExecutorFails
  \/ ExecutorSucceeds
  \/ PostTurn
  \/ IterationReturn

NextCombined == CombinedSteps \/ ExternalExit

CombinedSpec == InitCombined /\ [][NextCombined]_vars

\* Every call the loop makes returns (the executor, the router prompt, the
\* sleep), so a step of the loop that can be taken is eventually taken.
CombinedLiveSpec == CombinedSpec /\ WF_vars(CombinedSteps)

\* The executor calls and the growth of step_index stay within two per
\* iteration started, and no more than sync_loops iterations are started.
CombinedWithinBound ==
  /\ loop_i <= args.sync_loops
  /\ Len(hist.executed) <= 2 * loop_i
  /\ state.step_index - hist.step0 <= 2 * loop_i

\* C38: one invocation of _run_combined starts at most sync_loops iterations,
\* so it makes at most 2 * sync_loops executor calls and step_index grows by at
\* most 2 * sync_loops; when every call returns, the invocation ends.
C38_CombinedBounded ==
  /\ [](prog = "combined" => CombinedWithinBound)
  /\ <>(pc \in {"exited", "crashed"})

\* A run that used the whole bound: sync_loops iterations of two turns each.
C38_Witness ==
  /\ prog = "combined" /\ pc = "exited"
  /\ args.sync_loops = MaxLoops /\ loop_i = MaxLoops
  /\ Len(hist.executed) = 2 * MaxLoops
  /\ state.step_index - hist.step0 = 2 * MaxLoops


\* The turn whose deterministic candidate is rejected while the router output
\* names a prompt that router_only mode would have accepted.
RouterWouldPass ==
  /\ TurnSelected /\ ModeInForce = "router_default"
  /\ ~Falsy(OutputPassed)
  /\ SelectedUnder("router_only").ok
  /\ ~DeterministicResolution.ok

\* C39: in router_default mode the deterministic route is evaluated and
\* validated before the router output is considered: when its candidate is
\* rejected the selection fails with that rejection, the turn runs nothing and
\* leaves the state alone, even though the router output names an allowlisted,
\* existing prompt that router_only mode would have accepted.
C39_DeterministicFirst ==
  RouterWouldPass =>
    /\ pc = "raised"
    /\ ~hist.result.ok
    /\ hist.result.error = DeterministicResolution.error
    /\ state = hist.start

\* The deterministic candidate's prompt file is missing and the router names
\* an allowlisted prompt that exists.
C39_Witness ==
  /\ RouterWouldPass /\ pc = "raised"
  /\ hist.result = Raise("NotFoundError")
  /\ SelectedUnder("router_only") = Decision("main.md", "router")


\* The combined loop at its start, on a state file that exists and does not
\* hold a state document.
CorruptedStart ==
  /\ prog = "combined" /\ loop_i = 0
  /\ disk.kind \notin {"json", "absent"}

\* C40: OrchestrationState.read never fails: from a state file that is not a
\* state document the loop starts with the default state (workflow standard
\* unless one is given, step_index 0, iteration 1, status idle), and goes on
\* to its first iteration instead of stopping.
C40_ReadNeverFails ==
  /\ [](CorruptedStart =>
          /\ pc = "loop_head"
          /\ state = InitialState(Absent, args)
          /\ state.step_index = 0 /\ state.iteration = 1 /\ state.status = "idle")
  /\ [][(CorruptedStart /\ pc = "loop_head") => pc' = "router"]_vars

====
